---- MODULE Spec2Model ----
(***************************************************************************)
(* jj-ffi: the transaction handles FfiTransaction (transaction.rs) and     *)
(* FfiGitTransaction (git.rs), each a Mutex<Option<Transaction>> slot,     *)
(* driven by concurrent callers.  The engine (jj_lib) beneath the facade   *)
(* is modelled by its contract: a shared append-only commit store, a view  *)
(* (set of heads) per repository snapshot, a mutable view plus a rewrite   *)
(* map per transaction, and an operation log that a commit appends to.     *)
(***************************************************************************)
EXTENDS Integers, Sequences, FiniteSets, TLC

\* ------------------------------------------------------------------ bounds
\* Number of calls the concurrent callers make in all (Spec, SpecPanic).
MaxCalls == 3
\* Number of calls the single caller makes (SpecOps).
MaxOps == 2
\* Number of bytes of a commit id (jj uses 20 or more; the codec is per byte).
IdBytes == 1
\* Number of calls the callers under the fair scheduler make (SpecLive).
MaxLive == 3
\* Number of calls of the caller of the root-only scenario (SpecScenario).
MaxScenario == 3
\* The largest limit a log is asked for, and the latest item a fault hits
\* (SpecLog).
MaxLimit == 2

\* ------------------------------------------------------------ identity codec
HexLower == <<"0","1","2","3","4","5","6","7","8","9","a","b","c","d","e","f">>
HexUpper == <<"0","1","2","3","4","5","6","7","8","9","A","B","C","D","E","F">>

IsHexChar(c) == \E i \in 1..16 : HexLower[i] = c \/ HexUpper[i] = c

DigitVal(c) == (CHOOSE i \in 1..16 : HexLower[i] = c \/ HexUpper[i] = c) - 1

\* hex::decode: odd length or a character outside [0-9a-fA-F] is an error;
\* upper and lower case digits decode to the same byte.
DecodeHex(text) ==
    IF Len(text) % 2 # 0 \/ \E i \in 1..Len(text) : ~IsHexChar(text[i])
    THEN [ok |-> FALSE, bytes |-> <<>>]
    ELSE [ok |-> TRUE,
          bytes |-> [i \in 1..(Len(text) \div 2) |->
                       16 * DigitVal(text[2*i - 1]) + DigitVal(text[2*i])]]

\* ObjectId::hex: two lowercase digits per byte.
EncodeHex(bytes) ==
    [i \in 1..(2 * Len(bytes)) |->
        IF i % 2 = 1 THEN HexLower[(bytes[(i + 1) \div 2] \div 16) + 1]
                     ELSE HexLower[(bytes[i \div 2] % 16) + 1]]

\* A decoding that keeps the low digit of each byte only.
CommitIdTryFromLowDigit(hex) ==
    [ok |-> DecodeHex(hex).ok,
     bytes |-> [i \in 1..Len(DecodeHex(hex).bytes) |-> DecodeHex(hex).bytes[i] % 16]]

\* TryFrom<&FfiCommitId> for CommitId (ids.rs:31-38)
CommitIdTryFrom(hex) == DecodeHex(hex)

\* From<&CommitId> for FfiCommitId
FfiCommitIdFrom(id) == EncodeHex(id)

\* The same text with its hex letters in lower case.
LowerText(text) ==
    [i \in 1..Len(text) |->
        IF \E k \in 1..16 : HexUpper[k] = text[i]
        THEN HexLower[CHOOSE k \in 1..16 : HexUpper[k] = text[i]]
        ELSE text[i]]

\* The same text with its letters in upper case (what a caller may pass in).
UpperText(text) ==
    [i \in 1..Len(text) |->
        IF \E k \in 1..16 : HexLower[k] = text[i]
        THEN HexUpper[CHOOSE k \in 1..16 : HexLower[k] = text[i]]
        ELSE text[i]]

\* ------------------------------------------------------------- identifiers
IdOf(n) == [i \in 1..IdBytes |-> IF i = IdBytes THEN n ELSE 0]
RootId == IdOf(0)
BaseId == IdOf(10)
FreshId(k) == IdOf(10 + k)
FreshIds == {FreshId(k) : k \in 1..(MaxCalls + MaxOps)}

Handles == {"tx", "git"}
Threads == {"t1", "t2"}
NoThread == "none"
NoTx == [present |-> FALSE]
None == "None"

\* ------------------------------------------------------------------ errors
LockErrorAsInvalidArgument ==
    [kind |-> "InvalidArgument", message |-> "Failed to acquire transaction lock"]

\* transaction.rs:40-42, 53-55, 63-65 and git.rs:89-91, 99-101
LockError ==
    [kind |-> "Internal", message |-> "Failed to acquire transaction lock"]

FinalizedErrorAsLockFailure ==
    [kind |-> "Internal", message |-> "Failed to acquire transaction lock"]

\* transaction.rs:43-45, 56-58, 66-68 and git.rs:92-94, 102-104
FinalizedError ==
    [kind |-> "Internal",
     message |-> "Transaction has already been committed or discarded"]

Err(kind, message) == [kind |-> kind, message |-> message]
OkUnit == [kind |-> "Ok"]
NoRet == [kind |-> "NoRet"]
Panicked == [kind |-> "Panic"]

\* ChangeId::reverse_hex: digit d is written as the d-th letter of "zyx...k".
ReverseHexDigits == <<"z","y","x","w","v","u","t","s","r","q","p","o","n","m","l","k">>

\* From<&ChangeId> for FfiChangeId
FfiChangeIdFrom(id) ==
    [i \in 1..(2 * Len(id)) |->
        IF i % 2 = 1 THEN ReverseHexDigits[(id[(i + 1) \div 2] \div 16) + 1]
                     ELSE ReverseHexDigits[(id[i \div 2] % 16) + 1]]

\* ------------------------------------------------- the engine's contract
\* A stored commit: [id, change, description, parents, author, tree].
RootCommit ==
    [id |-> RootId, change |-> RootId, description |-> "", parents |-> <<>>,
     author |-> "settings", tree |-> "empty"]
BaseCommit ==
    [id |-> BaseId, change |-> BaseId, description |-> "base",
     parents |-> <<RootId>>, author |-> "settings", tree |-> "t0"]

StoreIds(st) == {c.id : c \in st}

\* Store::get_commit
StoreGet(st, id) == CHOOSE c \in st : c.id = id

SeqRange(s) == {s[i] : i \in 1..Len(s)}

RECURSIVE AncestorsOf(_, _)
\* The ids of `ids` that are stored, and all their stored ancestors.
AncestorsOf(st, ids) ==
    LET here == ids \cap StoreIds(st)
        up == UNION {SeqRange(StoreGet(st, i).parents) : i \in here}
    IN  IF up \subseteq here THEN here ELSE AncestorsOf(st, here \cup up)

\* View::add_head followed by enforce_view_invariants: no head is an
\* ancestor of another head.
ViewAddHead(st, heads, c) ==
    (heads \ AncestorsOf(st, SeqRange(c.parents))) \cup {c.id}

\* The id the store gives the next written commit (content-derived with a
\* fresh change id or committer timestamp, so never one already stored).
NextFresh(st) == FreshId(Cardinality(StoreIds(st) \cap FreshIds) + 1)

\* A transaction as Transaction::new leaves it: the base repository's view
\* and an empty rewrite map (MutableRepo::parent_mapping).
NewTx(baseHeads) ==
    [present |-> TRUE, base |-> baseHeads, heads |-> baseHeads,
     rewrites |-> {}, refs |-> {}]

\* CommitBuilder::write for MutableRepo::new_commit: the write fails when the
\* backend fails (io) or a parent cannot be loaded while the head is indexed.
EngineNewCommit(tx, st, parents, tree, description, author, io) ==
    IF io = "ok" /\ SeqRange(parents) \subseteq StoreIds(st)
    THEN LET c == [id |-> NextFresh(st), change |-> NextFresh(st),
                   description |-> description, parents |-> parents,
                   author |-> author, tree |-> tree]
         IN  [ok |-> TRUE, commit |-> c, store |-> st \cup {c},
              tx |-> [tx EXCEPT !.heads = ViewAddHead(st, tx.heads, c)]]
    ELSE [ok |-> FALSE, commit |-> RootCommit, store |-> st, tx |-> tx]

\* CommitBuilder::write for MutableRepo::rewrite_commit: the new commit keeps
\* the predecessor's change id, tree and author, and the predecessor is
\* recorded as rewritten.
EngineRewrite(tx, st, old, parents, description, io) ==
    IF io = "ok" /\ SeqRange(parents) \subseteq StoreIds(st)
    THEN LET c == [id |-> NextFresh(st), change |-> old.change,
                   description |-> description, parents |-> parents,
                   author |-> old.author, tree |-> old.tree]
         IN  [ok |-> TRUE, commit |-> c, store |-> st \cup {c},
              tx |-> [tx EXCEPT
                        !.heads = ViewAddHead(st, tx.heads, c),
                        !.rewrites = @ \cup {[old |-> old.id, kind |-> "Rewritten"]}]]
    ELSE [ok |-> FALSE, commit |-> RootCommit, store |-> st, tx |-> tx]

\* MutableRepo::record_abandoned_commit
EngineAbandon(tx, old) ==
    [tx EXCEPT !.rewrites = @ \cup {[old |-> old.id, kind |-> "Abandoned"]}]

\* MutableRepo::has_changes: the rewrite map is non-empty or the view
\* differs from the base repository's.
EngineHasChanges(tx) == tx.rewrites # {} \/ tx.heads # tx.base \/ tx.refs # {}

\* Transaction::commit (Transaction::write) asserts that no rewrite record
\* is pending: records made by rewrite_commit or record_abandoned_commit are
\* only applied to the view (hidden heads removed, descendants rebased) by
\* MutableRepo::rebase_descendants, which the facade never calls.
EngineCommitPanics(tx) == tx.rewrites # {}

\* The view Transaction::commit publishes: the transaction's view as it is.
EngineCommittedHeads(tx, st) == tx.heads

\* From<&Commit> for FfiCommit (commit.rs:27-39)
FfiCommitFrom(c) ==
    [id |-> FfiCommitIdFrom(c.id),
     change_id |-> FfiChangeIdFrom(c.change),
     description |-> c.description,
     author |-> c.author,
     parent_ids |-> [i \in 1..Len(c.parents) |-> FfiCommitIdFrom(c.parents[i])]]

OkCommit(c) == [kind |-> "Ok", commit |-> FfiCommitFrom(c)]
OkBool(b) == [kind |-> "Ok", value |-> b]

NoParents == [some |-> FALSE, ids |-> <<>>]
SomeParents(ids) == [some |-> TRUE, ids |-> ids]

\* --------------------------------------------- the closures run under the lock
\* Every closure yields [ret, tx, store, wrote]: the value returned to the
\* caller, the transaction and the store it leaves, and whether it reached
\* builder.write().  `io` is the outcome of the collaborator's I/O (the
\* backend's write, the git exchange); Store::get_commit fails exactly when
\* the id is not stored.
Out(ret, tx, st, wrote) == [ret |-> ret, tx |-> tx, store |-> st, wrote |-> wrote]

DecodeAll(texts) == [i \in 1..Len(texts) |-> CommitIdTryFrom(texts[i])]
AllDecoded(texts) == \A i \in 1..Len(texts) : DecodeAll(texts)[i].ok
DecodedIds(texts) == [i \in 1..Len(texts) |-> DecodeAll(texts)[i].bytes]

\* create_empty_commit without the check of the empty parent list.
CreateEmptyCommitNoEmptyCheck(tx, st, a, io) ==
    IF ~AllDecoded(a.parent_ids)
    THEN Out(Err("InvalidArgument", "Invalid parent commit ID"), tx, st, FALSE)
    ELSE LET w == EngineNewCommit(tx, st, DecodedIds(a.parent_ids), "empty",
                                  a.description, "settings", io)
         IN  IF w.ok THEN Out(OkCommit(w.commit), w.tx, w.store, TRUE)
                     ELSE Out(Err("Backend", "write"), w.tx, w.store, TRUE)

\* FfiTransaction::create_empty_commit, the closure (transaction.rs:76-121)
CreateEmptyCommit(tx, st, a, io) ==
    IF ~AllDecoded(a.parent_ids)
    THEN Out(Err("InvalidArgument", "Invalid parent commit ID"), tx, st, FALSE)
    ELSE IF Len(a.parent_ids) = 0
    THEN Out(Err("InvalidArgument", "At least one parent commit ID is required"),
             tx, st, FALSE)
    ELSE LET author == IF a.author = "both" THEN "supplied" ELSE "settings"
             w == EngineNewCommit(tx, st, DecodedIds(a.parent_ids), "empty",
                                  a.description, author, io)
         IN  IF w.ok THEN Out(OkCommit(w.commit), w.tx, w.store, TRUE)
                     ELSE Out(Err("Backend", "write"), w.tx, w.store, TRUE)

\* create_commit_from_parent that hands the parent's parents to new_commit.
CreateCommitFromParentSibling(tx, st, a, io) ==
    LET d == CommitIdTryFrom(a.target)
    IN  IF ~d.ok
        THEN Out(Err("InvalidArgument", "Invalid parent commit ID"), tx, st, FALSE)
        ELSE IF d.bytes \notin StoreIds(st)
        THEN Out(Err("Backend", "get_commit"), tx, st, FALSE)
        ELSE LET w == EngineNewCommit(tx, st, StoreGet(st, d.bytes).parents,
                                      StoreGet(st, d.bytes).tree,
                                      a.description, "settings", io)
             IN  IF w.ok THEN Out(OkCommit(w.commit), w.tx, w.store, TRUE)
                         ELSE Out(Err("Backend", "write"), w.tx, w.store, TRUE)

\* FfiTransaction::create_commit_from_parent, the closure (transaction.rs:130-160)
CreateCommitFromParent(tx, st, a, io) ==
    LET d == CommitIdTryFrom(a.target)
    IN  IF ~d.ok
        THEN Out(Err("InvalidArgument", "Invalid parent commit ID"), tx, st, FALSE)
        ELSE IF d.bytes \notin StoreIds(st)
        THEN Out(Err("Backend", "get_commit"), tx, st, FALSE)
        ELSE LET w == EngineNewCommit(tx, st, <<d.bytes>>, StoreGet(st, d.bytes).tree,
                                      a.description, "settings", io)
             IN  IF w.ok THEN Out(OkCommit(w.commit), w.tx, w.store, TRUE)
                         ELSE Out(Err("Backend", "write"), w.tx, w.store, TRUE)

\* rewrite_commit that leaves the description empty when none is supplied.
RewriteCommitFreshDescription(tx, st, a, io) ==
    LET d == CommitIdTryFrom(a.target)
    IN  IF ~d.ok
        THEN Out(Err("InvalidArgument", "Invalid commit ID"), tx, st, FALSE)
        ELSE IF d.bytes \notin StoreIds(st)
        THEN Out(Err("Backend", "get_commit"), tx, st, FALSE)
        ELSE LET old == StoreGet(st, d.bytes)
                 desc == IF a.new_description # None THEN a.new_description ELSE ""
                 parents == IF a.new_parent_ids.some /\ AllDecoded(a.new_parent_ids.ids)
                            THEN DecodedIds(a.new_parent_ids.ids)
                            ELSE old.parents
                 w == EngineRewrite(tx, st, old, parents, desc, io)
             IN  IF w.ok THEN Out(OkCommit(w.commit), w.tx, w.store, TRUE)
                         ELSE Out(Err("Backend", "write"), w.tx, w.store, TRUE)

\* FfiTransaction::rewrite_commit, the closure (transaction.rs:165-212).
\* a.new_description is None and a.new_parent_ids.some is FALSE when the
\* field is not supplied.
RewriteCommit(tx, st, a, io) ==
    LET d == CommitIdTryFrom(a.target)
    IN  IF ~d.ok
        THEN Out(Err("InvalidArgument", "Invalid commit ID"), tx, st, FALSE)
        ELSE IF d.bytes \notin StoreIds(st)
        THEN Out(Err("Backend", "get_commit"), tx, st, FALSE)
        ELSE LET old == StoreGet(st, d.bytes)
                 desc == IF a.new_description # None THEN a.new_description
                                                     ELSE old.description
             IN  IF a.new_parent_ids.some /\ ~AllDecoded(a.new_parent_ids.ids)
                 THEN Out(Err("InvalidArgument", "Invalid parent commit ID"),
                          tx, st, FALSE)
                 ELSE IF a.new_parent_ids.some /\ Len(a.new_parent_ids.ids) = 0
                 THEN Out(Err("InvalidArgument",
                              "At least one parent commit ID is required"),
                          tx, st, FALSE)
                 ELSE LET parents == IF a.new_parent_ids.some
                                     THEN DecodedIds(a.new_parent_ids.ids)
                                     ELSE old.parents
                          w == EngineRewrite(tx, st, old, parents, desc, io)
                      IN  IF w.ok THEN Out(OkCommit(w.commit), w.tx, w.store, TRUE)
                                  ELSE Out(Err("Backend", "write"), w.tx, w.store, TRUE)

\* FfiTransaction::update_description (transaction.rs:216-227): the rewrite
\* with only the description supplied.
UpdateDescription(tx, st, a, io) ==
    RewriteCommit(tx, st,
                  [a EXCEPT !.new_description = a.description,
                            !.new_parent_ids = NoParents],
                  io)

\* abandon_commit that looks the commit up and records nothing.
AbandonCommitNoRecord(tx, st, a, io) ==
    LET d == CommitIdTryFrom(a.target)
    IN  IF ~d.ok
        THEN Out(Err("InvalidArgument", "Invalid commit ID"), tx, st, FALSE)
        ELSE IF d.bytes \notin StoreIds(st)
        THEN Out(Err("Backend", "get_commit"), tx, st, FALSE)
        ELSE Out(OkUnit, tx, st, FALSE)

\* FfiTransaction::abandon_commit, the closure (transaction.rs:231-250)
AbandonCommit(tx, st, a, io) ==
    LET d == CommitIdTryFrom(a.target)
    IN  IF ~d.ok
        THEN Out(Err("InvalidArgument", "Invalid commit ID"), tx, st, FALSE)
        ELSE IF d.bytes \notin StoreIds(st)
        THEN Out(Err("Backend", "get_commit"), tx, st, FALSE)
        ELSE Out(OkUnit, EngineAbandon(tx, StoreGet(st, d.bytes)), st, FALSE)

\* FfiTransaction::has_changes, the closure (transaction.rs:273)
HasChanges(tx, st, a, io) == Out(OkBool(EngineHasChanges(tx)), tx, st, FALSE)

\* FfiGitTransaction::import_refs, the closure (git.rs:114-119)
ImportRefs(tx, st, a, io) ==
    IF io = "ok"
    THEN Out([kind |-> "Ok", stats |-> "import"],
             [tx EXCEPT !.refs = @ \cup {"imported"}], st, FALSE)
    ELSE Out(Err("Git", "import_refs"), tx, st, FALSE)

\* FfiGitTransaction::export_refs, the closure (git.rs:126-134)
ExportRefs(tx, st, a, io) ==
    IF io = "ok"
    THEN Out([kind |-> "Ok", stats |-> "export"],
             [tx EXCEPT !.refs = @ \cup {"exported"}], st, FALSE)
    ELSE Out(Err("Git", "export_refs"), tx, st, FALSE)

\* The branches of the remote, as texts; names hold letters only (git allows
\* neither '*' nor '[' in a branch name).
RemoteBranches == {<<"m">>, <<"m", "a">>, <<"a", "m">>, <<"d">>}

Contains(text, c) == \E i \in 1..Len(text) : text[i] = c

\* StringPattern::glob (git.rs:163): compilation fails on a character class
\* that is not closed.
GlobCompiles(p) == ~Contains(p, "[")

RECURSIVE GlobMatch(_, _)
\* A compiled glob on a name: '*' stands for any run of characters, every
\* other character for itself.
GlobMatch(p, name) ==
    IF p = <<>> THEN name = <<>>
    ELSE IF Head(p) = "*"
    THEN GlobMatch(Tail(p), name) \/ (name # <<>> /\ GlobMatch(p, Tail(name)))
    ELSE name # <<>> /\ Head(p) = Head(name) /\ GlobMatch(Tail(p), Tail(name))

\* StringExpression::matches: all, exact, pattern and union_all.
Matches(expr, name) ==
    CASE expr.type = "all" -> TRUE
      [] expr.type = "exact" -> name = expr.text
      [] expr.type = "pattern" -> GlobMatch(expr.text, name)
      [] expr.type = "union_all" ->
            \E i \in 1..Len(expr.parts) :
                IF expr.parts[i].type = "exact" THEN name = expr.parts[i].text
                ELSE GlobMatch(expr.parts[i].text, name)

\* A branch expression that takes every pattern as an exact name.
BranchExprExactOnly(branch_patterns) ==
    IF branch_patterns = <<>> THEN [type |-> "all"]
    ELSE [type |-> "union_all",
          parts |-> [i \in 1..Len(branch_patterns) |->
                        [type |-> "exact", text |-> branch_patterns[i]]]]

\* The branch expression fetch builds from its patterns (git.rs:154-173).
BranchExpr(branch_patterns) ==
    IF branch_patterns = <<>> THEN [type |-> "all"]
    ELSE [type |-> "union_all",
          parts |-> [i \in 1..Len(branch_patterns) |->
                        IF Contains(branch_patterns[i], "*")
                        THEN IF GlobCompiles(branch_patterns[i])
                             THEN [type |-> "pattern", text |-> branch_patterns[i]]
                             ELSE [type |-> "exact", text |-> branch_patterns[i]]
                        ELSE [type |-> "exact", text |-> branch_patterns[i]]]]

\* FfiGitTransaction::fetch, the closure (git.rs:145-196); `branches` are the
\* remote branches the expanded refspecs cover.
Fetch(tx, st, a, io) ==
    IF io = "ok"
    THEN Out([kind |-> "Ok", stats |-> "import",
              branches |-> {b \in RemoteBranches :
                               Matches(BranchExpr(a.branch_patterns), b)}],
             [tx EXCEPT !.refs = @ \cup {"fetched"}], st, FALSE)
    ELSE Out(Err("Git", "fetch"), tx, st, FALSE)

\* The local bookmarks of the view the git transaction starts from.
LocalBookmarks == {"main"}

\* The first name of the request that has no local bookmark: the one the
\* loop of push_branches stops at (git.rs:214-221).
FirstAbsent(names) ==
    names[CHOOSE i \in 1..Len(names) :
             /\ names[i] \notin LocalBookmarks
             /\ \A j \in 1..(i - 1) : names[j] \in LocalBookmarks]

\* push_branches that pushes each branch as soon as it is found.
PushBranchesOneByOne(tx, st, a, io) ==
    IF \E i \in 1..Len(a.branch_names) : a.branch_names[i] \notin LocalBookmarks
    THEN Out(Err("Git", <<"Branch not found: ", FirstAbsent(a.branch_names)>>),
             IF a.branch_names[1] \in LocalBookmarks /\ io = "ok"
             THEN [tx EXCEPT !.refs = @ \cup {"pushed"}] ELSE tx,
             st, FALSE)
    ELSE IF io = "ok"
    THEN Out([kind |-> "Ok", stats |-> "push"],
             [tx EXCEPT !.refs = @ \cup {"pushed"}], st, FALSE)
    ELSE Out(Err("Git", "push_branches"), tx, st, FALSE)

\* FfiGitTransaction::push_branches, the closure (git.rs:207-252): every
\* name is looked up, and the closure returns at the first one without a
\* local bookmark ("Branch '<name>' not found"), before the collaborator's
\* push (git::push_branches, git.rs:239) is called with the whole request.
PushBranches(tx, st, a, io) ==
    IF \E i \in 1..Len(a.branch_names) : a.branch_names[i] \notin LocalBookmarks
    THEN Out(Err("Git", <<"Branch not found: ", FirstAbsent(a.branch_names)>>),
             tx, st, FALSE)
    ELSE IF io = "ok"
    THEN Out([kind |-> "Ok", stats |-> "push"],
             [tx EXCEPT !.refs = @ \cup {"pushed"}], st, FALSE)
    ELSE Out(Err("Git", "push_branches"), tx, st, FALSE)

\* The closure an operation passes to with_transaction / with_transaction_mut.
Closure(op, tx, st, a, io) ==
    CASE op = "create_empty_commit" -> CreateEmptyCommit(tx, st, a, io)
      [] op = "create_commit_from_parent" -> CreateCommitFromParent(tx, st, a, io)
      [] op = "rewrite_commit" -> RewriteCommit(tx, st, a, io)
      [] op = "update_description" -> UpdateDescription(tx, st, a, io)
      [] op = "abandon_commit" -> AbandonCommit(tx, st, a, io)
      [] op = "has_changes" -> HasChanges(tx, st, a, io)
      [] op = "import_refs" -> ImportRefs(tx, st, a, io)
      [] op = "export_refs" -> ExportRefs(tx, st, a, io)
      [] op = "fetch" -> Fetch(tx, st, a, io)
      [] op = "push_branches" -> PushBranches(tx, st, a, io)

\* ------------------------------------------------ the repository handle
\* An FfiReadonlyRepo: the shared store and the view (heads) of the operation
\* it was loaded at.
Repo(st, heads) == [store |-> st, heads |-> heads]

\* The commits of the handle's index and view: everything reachable from its
\* heads (ReadonlyRepo::index, ReadonlyRepo::view).
RepoIndex(repo) == AncestorsOf(repo.store, repo.heads)

\* The position of a commit in the index: commits are indexed in the order
\* they are written, parents before children.
IdNum(id) == id[IdBytes]

RECURSIVE SortDesc(_)
\* Revset::iter order: by index position, latest first.
SortDesc(ids) ==
    IF ids = {} THEN <<>>
    ELSE LET m == CHOOSE x \in ids : \A y \in ids : IdNum(y) <= IdNum(x)
         IN  <<m>> \o SortDesc(ids \ {m})

IsPrefixOf(p, text) ==
    Len(p) <= Len(text) /\ \A i \in 1..Len(p) : p[i] = text[i]

\* get_commit that answers from the handle's index only.
RepoGetCommitVisibleOnly(repo, text) ==
    LET d == CommitIdTryFrom(text)
    IN  IF ~d.ok THEN Err("InvalidArgument", "Invalid commit ID")
        ELSE IF d.bytes \notin RepoIndex(repo) THEN Err("Backend", "get_commit")
        ELSE OkCommit(StoreGet(repo.store, d.bytes))

\* FfiReadonlyRepo::get_commit (repo.rs:36-43): the id is looked up in the
\* store, which the handle shares with every transaction started from it.
RepoGetCommit(repo, text) ==
    LET d == CommitIdTryFrom(text)
    IN  IF ~d.ok THEN Err("InvalidArgument", "Invalid commit ID")
        ELSE IF d.bytes \notin StoreIds(repo.store) THEN Err("Backend", "get_commit")
        ELSE OkCommit(StoreGet(repo.store, d.bytes))

\* HexPrefix::try_from_hex (repo.rs:80): hex digits of either case, of any
\* number, none included.
HexPrefixTryFromHex(prefix) == \A i \in 1..Len(prefix) : IsHexChar(prefix[i])

\* Index::resolve_commit_id_prefix (repo.rs:84-87): the indexed commits whose
\* id starts with the digits of the prefix.
ResolveCommitIdPrefix(repo, prefix) ==
    LET matches == {id \in RepoIndex(repo) :
                       IsPrefixOf(prefix, UpperText(EncodeHex(id)))
                       \/ IsPrefixOf(prefix, EncodeHex(id))}
    IN  IF matches = {} THEN [resolution |-> "NoMatch"]
        ELSE IF Cardinality(matches) = 1
        THEN [resolution |-> "SingleMatch", id |-> CHOOSE id \in matches : TRUE]
        ELSE [resolution |-> "AmbiguousMatch"]

\* A resolution that reports an ambiguous prefix as not found.
ResolveCommitPrefixOnAmbiguousNotFound(repo, prefix, indexFails) ==
    LET resolution == ResolveCommitIdPrefix(repo, prefix)
    IN  IF ~HexPrefixTryFromHex(prefix)
        THEN Err("InvalidArgument", <<"Invalid hex prefix: ", prefix>>)
        ELSE IF indexFails THEN Err("Internal", <<"Index error: ", "index">>)
        ELSE IF resolution.resolution = "NoMatch"
        THEN [kind |-> "CommitNotFound", id |-> prefix]
        ELSE IF resolution.resolution = "SingleMatch"
        THEN [kind |-> "Ok", ids |-> <<FfiCommitIdFrom(resolution.id)>>]
        ELSE [kind |-> "CommitNotFound", id |-> prefix]

\* FfiReadonlyRepo::resolve_commit_prefix (repo.rs:79-101); a message is the
\* format string and its argument; `indexFails`: the index lookup returns an
\* error.
ResolveCommitPrefixOn(repo, prefix, indexFails) ==
    LET resolution == ResolveCommitIdPrefix(repo, prefix)
    IN  IF ~HexPrefixTryFromHex(prefix)
        THEN Err("InvalidArgument", <<"Invalid hex prefix: ", prefix>>)
        ELSE IF indexFails THEN Err("Internal", <<"Index error: ", "index">>)
        ELSE IF resolution.resolution = "NoMatch"
        THEN [kind |-> "CommitNotFound", id |-> prefix]
        ELSE IF resolution.resolution = "SingleMatch"
        THEN [kind |-> "Ok", ids |-> <<FfiCommitIdFrom(resolution.id)>>]
        ELSE Err("InvalidArgument", <<"Ambiguous commit prefix: ", prefix>>)

\* resolve_commit_prefix on an index that answers.
ResolveCommitPrefix(repo, prefix) == ResolveCommitPrefixOn(repo, prefix, FALSE)

IsReverseHexChar(c) == \E i \in 1..16 : ReverseHexDigits[i] = c

\* TryFrom<&FfiChangeId> for ChangeId (ids.rs:67-75)
ChangeIdTryFrom(text) ==
    IF Len(text) % 2 # 0 \/ \E i \in 1..Len(text) : ~IsReverseHexChar(text[i])
    THEN [ok |-> FALSE, bytes |-> <<>>]
    ELSE [ok |-> TRUE,
          bytes |-> [i \in 1..(Len(text) \div 2) |->
              16 * ((CHOOSE k \in 1..16 : ReverseHexDigits[k] = text[2*i - 1]) - 1)
              + (CHOOSE k \in 1..16 : ReverseHexDigits[k] = text[2*i]) - 1]]

\* ReadonlyRepo::resolve_change_id (repo.rs:64): the visible commits that
\* carry the change id, None when there is none.
RepoResolveChangeId(repo, change) ==
    LET found == {id \in RepoIndex(repo) : StoreGet(repo.store, id).change = change}
    IN  IF found = {} THEN [some |-> FALSE, ids |-> <<>>]
        ELSE [some |-> TRUE, ids |-> SortDesc(found)]

\* A resolution that returns only the first of the commits found.
ResolveChangeIdOnFirstOnly(repo, text, indexFails) ==
    LET d == ChangeIdTryFrom(text)
        maybe == RepoResolveChangeId(repo, d.bytes)
    IN  IF ~d.ok THEN Err("InvalidArgument", <<"Invalid change ID: ", text>>)
        ELSE IF indexFails THEN Err("Internal", <<"Index error: ", "index">>)
        ELSE IF ~maybe.some THEN [kind |-> "CommitNotFound", id |-> text]
        ELSE [kind |-> "Ok", ids |-> <<FfiCommitIdFrom(maybe.ids[1])>>]

\* FfiReadonlyRepo::resolve_change_id (repo.rs:62-76); `indexFails`: the
\* lookup returns an error.
ResolveChangeIdOn(repo, text, indexFails) ==
    LET d == ChangeIdTryFrom(text)
        maybe == RepoResolveChangeId(repo, d.bytes)
    IN  IF ~d.ok THEN Err("InvalidArgument", <<"Invalid change ID: ", text>>)
        ELSE IF indexFails THEN Err("Internal", <<"Index error: ", "index">>)
        ELSE IF ~maybe.some THEN [kind |-> "CommitNotFound", id |-> text]
        ELSE [kind |-> "Ok",
              ids |-> [i \in 1..Len(maybe.ids) |-> FfiCommitIdFrom(maybe.ids[i])]]

\* resolve_change_id on an index that answers.
ResolveChangeId(repo, text) == ResolveChangeIdOn(repo, text, FALSE)

\* ------------------------------------------------------ revset evaluation
\* The engine's revset language, as far as the facade's callers use it here:
\* "all()", a symbol (a commit id prefix in lowercase hex, or a change id
\* prefix in reverse hex), and the union "x|y|..." of such.  Anything else
\* does not parse.
AllText == <<"a", "l", "l", "(", ")">>

IsLowerHexChar(c) == \E i \in 1..16 : HexLower[i] = c

RECURSIVE SplitOn(_, _)
\* The pieces of a text between the occurrences of `sep`.
SplitOn(text, sep) ==
    IF \A i \in 1..Len(text) : text[i] # sep THEN <<text>>
    ELSE <<SubSeq(text, 1, (CHOOSE i \in 1..Len(text) :
                               /\ text[i] = sep
                               /\ \A j \in 1..(i - 1) : text[j] # sep) - 1)>>
         \o SplitOn(SubSeq(text, (CHOOSE i \in 1..Len(text) :
                                     /\ text[i] = sep
                                     /\ \A j \in 1..(i - 1) : text[j] # sep) + 1,
                           Len(text)), sep)

\* jj_lib::revset::parse of a text without operators
ParseAtom(text) ==
    IF text = AllText THEN [ok |-> TRUE, expr |-> [type |-> "all", name |-> <<>>]]
    ELSE IF /\ Len(text) > 0
            /\ \A i \in 1..Len(text) : IsLowerHexChar(text[i]) \/ IsReverseHexChar(text[i])
    THEN [ok |-> TRUE, expr |-> [type |-> "symbol", name |-> text]]
    ELSE [ok |-> FALSE, expr |-> [type |-> "none", name |-> <<>>]]

\* jj_lib::revset::parse
ParseRevset(text) ==
    IF \A i \in 1..Len(text) : text[i] # "|" THEN ParseAtom(text)
    ELSE IF \E i \in 1..Len(SplitOn(text, "|")) : ~ParseAtom(SplitOn(text, "|")[i]).ok
    THEN [ok |-> FALSE, expr |-> [type |-> "none", name |-> <<>>]]
    ELSE [ok |-> TRUE,
          expr |-> [type |-> "union", name |-> <<>>,
                    parts |-> [i \in 1..Len(SplitOn(text, "|")) |->
                                  ParseAtom(SplitOn(text, "|")[i]).expr]]]

\* SymbolResolver: the commits of the handle a symbol names.
SymbolCommits(repo, name) ==
    IF \A i \in 1..Len(name) : IsLowerHexChar(name[i])
    THEN {id \in RepoIndex(repo) : IsPrefixOf(name, EncodeHex(id))}
    ELSE IF \A i \in 1..Len(name) : IsReverseHexChar(name[i])
    THEN {id \in RepoIndex(repo) :
             IsPrefixOf(name, FfiChangeIdFrom(StoreGet(repo.store, id).change))}
    ELSE {}

\* RevsetExpression::resolve_user_expression of an expression without
\* operators: a symbol must name exactly one commit of the handle.
ResolveAtom(repo, expr) ==
    IF expr.type = "all" THEN [ok |-> TRUE, ids |-> RepoIndex(repo)]
    ELSE IF Cardinality(SymbolCommits(repo, expr.name)) = 1
    THEN [ok |-> TRUE, ids |-> SymbolCommits(repo, expr.name)]
    ELSE [ok |-> FALSE, ids |-> {}]

\* RevsetExpression::resolve_user_expression: every symbol of the expression
\* is resolved; a union selects what any of its operands selects.
ResolveRevset(repo, expr) ==
    IF expr.type # "union" THEN ResolveAtom(repo, expr)
    ELSE IF \E i \in 1..Len(expr.parts) : ~ResolveAtom(repo, expr.parts[i]).ok
    THEN [ok |-> FALSE, ids |-> {}]
    ELSE [ok |-> TRUE,
          ids |-> UNION {ResolveAtom(repo, expr.parts[i]).ids : i \in 1..Len(expr.parts)}]

\* A combination of the revisions that keeps only the last one.
EvaluateRevisionsLastWins(repo, revisions, evalFails) ==
    LET parsed == [i \in 1..Len(revisions) |-> ParseRevset(revisions[i])]
        resolved == [i \in 1..Len(revisions) |-> ResolveRevset(repo, parsed[i].expr)]
    IN  IF \E i \in 1..Len(revisions) : ~parsed[i].ok
        THEN Err("Revset", "parse")
        ELSE IF \E i \in 1..Len(revisions) : ~resolved[i].ok
        THEN Err("Revset", "resolve")
        ELSE IF evalFails THEN Err("Revset", "evaluate")
        ELSE [kind |-> "Ok",
              ids |-> IF Len(revisions) = 0 THEN RepoIndex(repo)
                      ELSE resolved[Len(revisions)].ids]

\* The set a list of revisions evaluates to, or the Revset error of the
\* phase that failed (log.rs:110-142): every revision is parsed, the union is
\* resolved, then evaluated (`evalFails`: the engine's evaluation fails).
EvaluateRevisions(repo, revisions, evalFails) ==
    LET parsed == [i \in 1..Len(revisions) |-> ParseRevset(revisions[i])]
        resolved == [i \in 1..Len(revisions) |-> ResolveRevset(repo, parsed[i].expr)]
    IN  IF \E i \in 1..Len(revisions) : ~parsed[i].ok
        THEN Err("Revset", "parse")
        ELSE IF \E i \in 1..Len(revisions) : ~resolved[i].ok
        THEN Err("Revset", "resolve")
        ELSE IF evalFails THEN Err("Revset", "evaluate")
        ELSE [kind |-> "Ok",
              ids |-> IF Len(revisions) = 0 THEN RepoIndex(repo)
                      ELSE UNION {resolved[i].ids : i \in 1..Len(revisions)}]

\* revset::evaluate_revset (revset.rs:18-67): the ids of the evaluated set in
\* the engine's iteration order.
EvaluateRevset(repo, text) ==
    LET r == EvaluateRevisions(repo, <<text>>, FALSE)
    IN  IF r.kind # "Ok" THEN r
        ELSE [kind |-> "Ok",
              ids |-> [i \in 1..Cardinality(r.ids) |->
                          FfiCommitIdFrom(SortDesc(r.ids)[i])]]

\* Loops that take every item of the iteration twice.
RevsetIterateTwice(op, repo, set, fault) ==
    IF fault.walk \in 1..Cardinality(set) THEN Err("Revset", "iterate")
    ELSE IF op = "count_revset" THEN [kind |-> "Ok", count |-> 2 * Cardinality(set)]
    ELSE IF op = "evaluate_revset"
    THEN [kind |-> "Ok",
          ids |-> [i \in 1..(2 * Cardinality(set)) |->
                      FfiCommitIdFrom(SortDesc(set)[(i + 1) \div 2])]]
    ELSE IF fault.load \in 1..Cardinality(set) THEN Err("Revset", "iterate")
    ELSE [kind |-> "Ok",
          commits |-> [i \in 1..Cardinality(set) |->
                          FfiCommitFrom(StoreGet(repo.store, SortDesc(set)[i]))]]

\* The loops over revset.iter() that end evaluate_revset (revset.rs:58-66),
\* evaluate_revset_to_commits (revset.rs:112-121) and count_revset
\* (revset.rs:161-169): an item that is an error ends the call with a Revset
\* error (fault.walk: the item of the walk that fails; fault.load: the commit
\* that fails to load, for the call that loads commits).
RevsetIterate(op, repo, set, fault) ==
    IF fault.walk \in 1..Cardinality(set) THEN Err("Revset", "iterate")
    ELSE IF op = "count_revset" THEN [kind |-> "Ok", count |-> Cardinality(set)]
    ELSE IF op = "evaluate_revset"
    THEN [kind |-> "Ok",
          ids |-> [i \in 1..Cardinality(set) |-> FfiCommitIdFrom(SortDesc(set)[i])]]
    ELSE IF fault.load \in 1..Cardinality(set) THEN Err("Revset", "iterate")
    ELSE [kind |-> "Ok",
          commits |-> [i \in 1..Cardinality(set) |->
                          FfiCommitFrom(StoreGet(repo.store, SortDesc(set)[i]))]]

\* ------------------------------------------------ the engine's commit graph
\* A graph node is [id, edges]; an edge is [target, edge_type] with edge_type
\* one of the engine's GraphEdgeType values "Direct", "Indirect", "Missing".
GraphEdge(target, type) == [target |-> target, edge_type |-> type]

RECURSIVE Flatten(_)
Flatten(seqs) == IF seqs = <<>> THEN <<>> ELSE Head(seqs) \o Flatten(Tail(seqs))

RECURSIVE SortAsc(_)
SortAsc(ns) ==
    IF ns = {} THEN <<>>
    ELSE LET m == CHOOSE x \in ns : \A y \in ns : x <= y
         IN  <<m>> \o SortAsc(ns \ {m})

\* The elements of seq at the positions in `keep`, in order.
AtPositions(seq, keep) == [i \in 1..Cardinality(keep) |-> seq[SortAsc(keep)[i]]]

RECURSIVE NearestIn(_, _, _)
\* The members of `set` reached from the commits `from` through parents that
\* are not in `set`.
NearestIn(st, set, from) ==
    LET ps == UNION {SeqRange(StoreGet(st, i).parents) : i \in from \cap StoreIds(st)}
    IN  IF ps = {} THEN {}
        ELSE (ps \cap set) \cup NearestIn(st, set, ps \ set)

\* The edges Revset::iter_graph gives a commit of the evaluated set: for each
\* parent in order, Direct when the parent is in the set, otherwise Indirect
\* to the nearest ancestors in the set, or Missing (to the parent) when no
\* ancestor of it is in the set; a target is named once, and with an Indirect
\* edge present the targets that are ancestors of another target are dropped.
GraphEdges(st, set, c) ==
    LET perParent == [i \in 1..Len(c.parents) |->
            LET q == c.parents[i]
                near == NearestIn(st, set, {q})
            IN  IF q \in set THEN <<GraphEdge(q, "Direct")>>
                ELSE IF near = {} THEN <<GraphEdge(q, "Missing")>>
                ELSE [k \in 1..Cardinality(near) |->
                         GraphEdge(SortDesc(near)[k], "Indirect")]]
        all == Flatten(perParent)
        first == {i \in 1..Len(all) :
                     \A j \in 1..(i - 1) : all[j].target # all[i].target}
        once == AtPositions(all, first)
        transitive(i) ==
            \E j \in 1..Len(once) :
                /\ j # i /\ once[j].edge_type # "Missing"
                /\ once[i].target \in
                      AncestorsOf(st, SeqRange(StoreGet(st, once[j].target).parents))
    IN  IF \E i \in 1..Len(once) : once[i].edge_type = "Indirect"
        THEN AtPositions(once, {i \in 1..Len(once) : ~transitive(i)})
        ELSE once

\* Revset::iter_graph: the commits of the set in index order, latest first,
\* each with its edges.
IterGraph(st, set) ==
    [i \in 1..Cardinality(set) |->
        [id |-> SortDesc(set)[i],
         edges |-> GraphEdges(st, set, StoreGet(st, SortDesc(set)[i]))]]

\* The targets a node is connected to (GraphEdge::is_reachable: not Missing).
ReachableTargets(edges) ==
    LET keep == {i \in 1..Len(edges) : edges[i].edge_type # "Missing"}
    IN  [i \in 1..Cardinality(keep) |-> AtPositions(edges, keep)[i].target]

NodeOf(nodes, id) == nodes[CHOOSE i \in 1..Len(nodes) : nodes[i].id = id]

RECURSIVE TopoWalk(_, _, _)
\* TopoGroupedGraphIterator: a depth-first walk from the heads.  The branch
\* of the first input node is emitted first; a node is emitted once all its
\* children are; of several parents the last is visited first; when nothing
\* can be emitted, the next head in input order starts a new branch.
TopoWalk(nodes, out, stack) ==
    LET emitted == SeqRange(out)
        children(x) == {nodes[i].id : i \in {k \in 1..Len(nodes) :
                           x \in SeqRange(ReachableTargets(nodes[k].edges))}}
    IN  IF Len(out) = Len(nodes) THEN out
        ELSE IF stack = <<>>
        THEN LET i == CHOOSE k \in 1..Len(nodes) :
                        /\ nodes[k].id \notin emitted
                        /\ \A j \in 1..(k - 1) : nodes[j].id \in emitted
             IN  TopoWalk(nodes, out, <<nodes[i].id>>)
        ELSE LET x == stack[Len(stack)]
                 below == SubSeq(stack, 1, Len(stack) - 1)
             IN  IF x \in emitted \/ ~(children(x) \subseteq emitted)
                 THEN TopoWalk(nodes, out, below)
                 ELSE TopoWalk(nodes, Append(out, x),
                               below \o ReachableTargets(NodeOf(nodes, x).edges))

TopoGrouped(nodes) ==
    [i \in 1..Len(nodes) |-> NodeOf(nodes, TopoWalk(nodes, <<>>, <<>>)[i])]

\* jj_lib::graph::reverse_graph: the nodes in reverse order, each with the
\* edges that pointed at it, turned around.
ReverseGraph(nodes) ==
    [i \in 1..Len(nodes) |->
        LET n == nodes[Len(nodes) + 1 - i]
        IN  [id |-> n.id,
             edges |-> Flatten([k \in 1..Len(nodes) |->
                 LET hit == {e \in 1..Len(nodes[k].edges) :
                                nodes[k].edges[e].target = n.id}
                 IN  [j \in 1..Cardinality(hit) |->
                         GraphEdge(nodes[k].id,
                                   AtPositions(nodes[k].edges, hit)[j].edge_type)]])]]

\* --------------------------------------------------------- the log builder
\* usize::MAX (log.rs:146), as far as the model's integers reach.
UsizeMax == 2147483647

Min(a, b) == IF a <= b THEN a ELSE b

\* A limit under which 0 means "no limit".
ToLimitZeroUnbounded(limit) == IF limit <= 0 THEN UsizeMax ELSE limit

\* log.rs:145-149: a negative limit is no limit.
ToLimit(limit) == IF limit < 0 THEN UsizeMax ELSE limit

\* Truncation of the raw revset order, grouped afterwards.
LimitedGraphRawOrder(st, set, limit) ==
    LET raw == IterGraph(st, set)
        cut == SubSeq(raw, 1, Min(limit, Len(raw)))
        open == [i \in 1..Len(cut) |->
                   [id |-> cut[i].id,
                    edges |-> AtPositions(cut[i].edges,
                        {e \in 1..Len(cut[i].edges) :
                            \E k \in 1..Len(cut) : cut[k].id = cut[i].edges[e].target})]]
        order == TopoWalk(open, <<>>, <<>>)
    IN  [i \in 1..Len(cut) |-> NodeOf(cut, order[i])]

\* The grouped graph without the cap.
LimitedGraphUncapped(st, set, limit) == TopoGrouped(IterGraph(st, set))

\* A cap applied from the far end: the last `limit` nodes of the grouped
\* sequence, the oldest ones.
LimitedGraphOldest(st, set, limit) ==
    LET grouped == TopoGrouped(IterGraph(st, set))
    IN  SubSeq(grouped, Len(grouped) + 1 - Min(limit, Len(grouped)), Len(grouped))

\* log.rs:152-153: TopoGroupedGraphIterator::new(revset.iter_graph()) and
\* then .take(limit): the first `limit` nodes of the grouped sequence.
LimitedGraph(st, set, limit) ==
    LET grouped == TopoGrouped(IterGraph(st, set))
    IN  SubSeq(grouped, 1, Min(limit, Len(grouped)))

\* An edge type conversion that reports a missing parent as an elided path.
FfiGraphEdgeTypeFromLossy(type) ==
    CASE type = "Direct" -> "Direct"
      [] type = "Indirect" -> "Indirect"
      [] type = "Missing" -> "Indirect"

\* From<GraphEdgeType> for FfiGraphEdgeType (log.rs:33-41)
FfiGraphEdgeTypeFrom(type) ==
    CASE type = "Direct" -> "Direct"
      [] type = "Indirect" -> "Indirect"
      [] type = "Missing" -> "Missing"

\* FfiGraphEdge::from_graph_edge (log.rs:52-59)
FfiGraphEdgeFrom(edge) ==
    [target |-> FfiCommitIdFrom(edge.target),
     edge_type |-> FfiGraphEdgeTypeFrom(edge.edge_type)]

\* The order the nodes are presented in, never reversed.
LogOrderNeverReversed(nodes, reversed) == nodes

\* The order the nodes are presented in, with the two branches exchanged.
LogOrderSwapped(nodes, reversed) ==
    IF reversed THEN nodes ELSE ReverseGraph(nodes)

\* log.rs:155-184: reverse_graph(graph_iter) when options.reversed, the
\* iterator's own order otherwise.
LogOrder(nodes, reversed) == IF reversed THEN ReverseGraph(nodes) ELSE nodes

\* impl From<BackendError> for JjError (error.rs:63-69), applied by the `?`
\* on store.get_commit (log.rs:164, 177).
BackendErrorFrom(message) == Err("Backend", message)

\* A collection that stops at the first failure and keeps what it has.
CollectKeepingPrefix(results) ==
    LET bad == {i \in 1..Len(results) : results[i].kind # "Ok"}
        n == IF bad = {} THEN Len(results) ELSE SortAsc(bad)[1] - 1
    IN  [kind |-> "Ok", entries |-> [i \in 1..n |-> results[i].entry]]

\* .collect::<Result<Vec<_>>>()? (log.rs:170, 183): the first error, or all
\* the entries.
Collect(results) ==
    LET bad == {i \in 1..Len(results) : results[i].kind # "Ok"}
    IN  IF bad # {} THEN results[SortAsc(bad)[1]]
        ELSE [kind |-> "Ok",
              entries |-> [i \in 1..Len(results) |-> results[i].entry]]

\* The faults a log build can meet: the engine's evaluation fails, the graph
\* walk yields an error as its walk-th item, the load-th get_commit fails
\* (0: never).
NoFault == [evaluate |-> FALSE, walk |-> 0, load |-> 0]

\* log::evaluate_log (log.rs:89-187).  The result is [ret, fetched]: what is
\* returned, and how many commits the facade asked the store for.  Each stage
\* (the capped graph, the nodes in the order shown, the entry or error per
\* node) is computed once and handed to the next as a value.
EvaluateLog(repo, options, fault) ==
    LET r == EvaluateRevisions(repo, options.revisions, fault.evaluate)
        Results(shown) == [i \in 1..Len(shown) |->
            IF ~options.reversed /\ fault.walk = i THEN Err("Revset", "walk")
            ELSE IF fault.load = i THEN BackendErrorFrom("get_commit")
            ELSE [kind |-> "Ok",
                  entry |-> [commit |-> FfiCommitFrom(StoreGet(repo.store, shown[i].id)),
                             edges |-> [e \in 1..Len(shown[i].edges) |->
                                           FfiGraphEdgeFrom(shown[i].edges[e])]]]]
        Answer(results) ==
            LET bad == {i \in 1..Len(results) : results[i].kind # "Ok"}
                first == IF bad = {} THEN Len(results) + 1 ELSE SortAsc(bad)[1]
            IN  [ret |-> Collect(results),
                 fetched |-> IF bad = {} THEN Len(results)
                             ELSE IF results[first].kind = "Revset" THEN first - 1
                             ELSE first]
        Build(nodes) ==
            IF options.reversed /\ fault.walk \in 1..Len(nodes)
            THEN [ret |-> Err("Revset", "walk"), fetched |-> 0]
            ELSE CHOOSE a \in
                    {Answer(results) : results \in
                        {SubSeq(Results(shown), 1, Len(nodes)) : shown \in
                            {LogOrder(nodes, options.reversed)}}} : TRUE
    IN  IF r.kind # "Ok" THEN [ret |-> r, fetched |-> 0]
        ELSE CHOOSE a \in
                {Build(nodes) : nodes \in
                    {LimitedGraph(repo.store, r.ids, ToLimit(options.limit))}} : TRUE

\* log::evaluate_log_flat (log.rs:190-278): the commits of the set in the
\* revset's own order, capped, and reversed on request.
EvaluateLogFlat(repo, options, fault) ==
    LET r == EvaluateRevisions(repo, options.revisions, fault.evaluate)
        Results(shown) == [i \in 1..Len(shown) |->
            IF ~options.reversed /\ (fault.walk = i \/ fault.load = i)
            THEN Err("Revset", "commits")
            ELSE IF fault.load = i THEN BackendErrorFrom("get_commit")
            ELSE [kind |-> "Ok", entry |-> FfiCommitFrom(StoreGet(repo.store, shown[i]))]]
        Answer(results) ==
            LET bad == {i \in 1..Len(results) : results[i].kind # "Ok"}
                first == IF bad = {} THEN Len(results) + 1 ELSE SortAsc(bad)[1]
            IN  [ret |-> Collect(results),
                 fetched |-> IF bad = {} THEN Len(results)
                             ELSE IF fault.walk = first THEN first - 1 ELSE first]
        Build(ids) ==
            IF options.reversed /\ fault.walk \in 1..Len(ids)
            THEN [ret |-> Err("Revset", "walk"), fetched |-> 0]
            ELSE CHOOSE a \in
                    {Answer(results) : results \in
                        {SubSeq(Results(shown), 1, Len(ids)) : shown \in
                            {IF options.reversed
                             THEN [i \in 1..Len(ids) |-> ids[Len(ids) + 1 - i]]
                             ELSE ids}}} : TRUE
    IN  IF r.kind # "Ok" THEN [ret |-> r, fetched |-> 0]
        ELSE CHOOSE a \in
                {Build(ids) : ids \in
                    {SubSeq(SortDesc(r.ids), 1,
                            Min(ToLimit(options.limit), Cardinality(r.ids)))}} : TRUE

\* ------------------------------------------------------------------- state
VARIABLES
    store,       \* the commit store shared by the repository and its transactions
    oplog,       \* the operations published so far: <<[by, heads]>>
    repoHeads,   \* the view of the FfiReadonlyRepo the transactions started from
    slot,        \* handle -> the Option<Transaction> inside the Mutex
    lockHolder,  \* handle -> the thread holding the Mutex, or NoThread
    poisoned,    \* handle -> the Mutex is poisoned
    pc,          \* thread -> "idle", "lock", "in" (closure running), "durable"
    cur,         \* thread -> the call in progress or last made: [h, op, args]
    ret,         \* thread -> what the last call returned
    held,        \* thread -> the Transaction a commit took out of the slot
    takes,       \* handle -> how often commit / discard emptied the slot
    durable,     \* handle -> how often Transaction::commit ran for it
    finalOk,     \* handle -> a commit or discard has returned success
    commitFailed,\* handle -> a commit has returned a Transaction error
    mutated,     \* handle -> a create / rewrite / abandon has succeeded on it
    seen,        \* thread -> what held of the handle when the call was made
    ran,         \* thread -> the call reached the engine (closure or commit)
    wrote,       \* thread -> the call reached builder.write()
    cause,       \* thread -> why the call returned: "lock", "finalized", "done"
    ncalls,      \* the number of calls made so far
    taken,       \* handle -> the Transaction as commit took it out of the slot
    lg           \* the last evaluate_log / evaluate_log_flat call and its result

vars == <<store, oplog, repoHeads, slot, lockHolder, poisoned, pc, cur, ret,
          held, takes, durable, finalOk, commitFailed, mutated, seen, ran, wrote,
          cause, ncalls, taken, lg>>

\* ------------------------------------------------------------------ inputs
T(id) == FfiCommitIdFrom(id)
BadText == <<"0", "g">>
OddText == <<"0">>
Descs == {"a", "b"}
ParentLists ==
    {<<>>, <<T(BaseId)>>, <<UpperText(T(BaseId))>>, <<T(RootId), T(FreshId(1))>>,
     <<BadText>>, <<OddText>>}
NewParentLists ==
    {<<>>, <<T(RootId)>>, <<UpperText(T(BaseId))>>, <<BadText>>}
Targets == {T(BaseId), T(FreshId(1)), UpperText(T(FreshId(1))), BadText}
BranchLists == {<<>>, <<"main">>, <<"main", "nope">>, <<"gone", "nope">>}

Args == [parent_ids |-> <<>>, target |-> <<>>, description |-> "",
         author |-> "none", new_description |-> None,
         new_parent_ids |-> NoParents, branch_names |-> <<>>,
         branch_patterns |-> <<>>]

\* The calls of the single caller (SpecOps).
TxCalls ==
    {[op |-> "create_empty_commit",
      args |-> [Args EXCEPT !.parent_ids = p, !.description = "a", !.author = au]] :
        p \in ParentLists, au \in {"none", "name_only", "both"}}
    \cup {[op |-> "create_commit_from_parent",
           args |-> [Args EXCEPT !.target = x, !.description = "a"]] :
        x \in Targets}
    \cup {[op |-> "rewrite_commit",
           args |-> [Args EXCEPT !.target = x, !.new_description = d,
                                 !.new_parent_ids = np]] :
        x \in Targets, d \in {None, "b"},
        np \in {NoParents} \cup {SomeParents(p) : p \in NewParentLists}}
    \cup {[op |-> "update_description",
           args |-> [Args EXCEPT !.target = x, !.description = "b"]] :
        x \in Targets}
    \cup {[op |-> "abandon_commit", args |-> [Args EXCEPT !.target = x]] :
        x \in Targets}
    \cup {[op |-> o, args |-> Args] : o \in {"has_changes", "commit", "discard"}}

GitCalls ==
    {[op |-> o, args |-> Args] :
        o \in {"import_refs", "export_refs", "fetch", "commit", "discard"}}
    \cup {[op |-> "push_branches", args |-> [Args EXCEPT !.branch_names = b]] :
        b \in BranchLists}

\* The calls of the concurrent callers (Spec, SpecPanic): every operation,
\* with one or two argument lists each.
CoreTxCalls ==
    {[op |-> "create_empty_commit",
      args |-> [Args EXCEPT !.parent_ids = <<T(BaseId)>>, !.description = "a"]],
     [op |-> "create_commit_from_parent",
      args |-> [Args EXCEPT !.target = T(FreshId(1)), !.description = "a"]],
     [op |-> "rewrite_commit",
      args |-> [Args EXCEPT !.target = T(BaseId), !.new_description = "b"]],
     [op |-> "update_description",
      args |-> [Args EXCEPT !.target = T(FreshId(1)), !.description = "b"]],
     [op |-> "abandon_commit", args |-> [Args EXCEPT !.target = T(BaseId)]],
     [op |-> "abandon_commit", args |-> [Args EXCEPT !.target = BadText]],
     [op |-> "has_changes", args |-> Args],
     [op |-> "commit", args |-> Args],
     [op |-> "discard", args |-> Args]}

CoreGitCalls ==
    {[op |-> o, args |-> Args] :
        o \in {"import_refs", "export_refs", "fetch", "commit", "discard"}}
    \cup {[op |-> "push_branches", args |-> [Args EXCEPT !.branch_names = <<"main">>]]}

CoreCallsOf(h) == IF h = "tx" THEN CoreTxCalls ELSE CoreGitCalls
CallsOf(h) == IF h = "tx" THEN TxCalls ELSE GitCalls

WriteOps == {"create_empty_commit", "create_commit_from_parent",
             "rewrite_commit", "update_description"}
Finalizers == {"commit", "discard"}

NoCall == [h |-> "tx", op |-> "none", args |-> Args]

\* No log has been asked for yet.
NoLog == [op |-> "none"]

MutatingOps == WriteOps \cup {"abandon_commit"}

\* What a caller could observe of handle h at the moment of a call.
Seen(h) ==
    [ok |-> finalOk[h], failed |-> commitFailed[h], present |-> slot[h].present,
     mutated |-> mutated[h], nstore |-> Cardinality(store)]

\* ------------------------------------------------------------------- Init
\* A repository holding the root commit and one commit on it, after
\* start_transaction and start_git_transaction have each been called once
\* (FfiTransaction::new, FfiGitTransaction::new: the slot holds the
\* transaction, the Mutex is free).
InitFrom(commits, heads) ==
    /\ store = commits
    /\ oplog = <<>>
    /\ repoHeads = heads
    /\ slot = [h \in Handles |-> NewTx(heads)]
    /\ lockHolder = [h \in Handles |-> NoThread]
    /\ poisoned = [h \in Handles |-> FALSE]
    /\ pc = [t \in Threads |-> "idle"]
    /\ cur = [t \in Threads |-> NoCall]
    /\ ret = [t \in Threads |-> NoRet]
    /\ held = [t \in Threads |-> NoTx]
    /\ takes = [h \in Handles |-> [commit |-> 0, discard |-> 0]]
    /\ durable = [h \in Handles |-> 0]
    /\ finalOk = [h \in Handles |-> FALSE]
    /\ commitFailed = [h \in Handles |-> FALSE]
    /\ mutated = [h \in Handles |-> FALSE]
    /\ seen = [t \in Threads |-> Seen("tx")]
    /\ ran = [t \in Threads |-> FALSE]
    /\ wrote = [t \in Threads |-> FALSE]
    /\ cause = [t \in Threads |-> "none"]
    /\ ncalls = 0
    /\ taken = [h \in Handles |-> NoTx]
    /\ lg = NoLog

Init == InitFrom({RootCommit, BaseCommit}, {BaseId})

ghost == <<takes, durable, finalOk, commitFailed, mutated, taken>>
rest == <<repoHeads, ncalls, lg>>

\* A caller invokes an operation on a handle.
Invoke(t, h, c) ==
    /\ pc[t] = "idle"
    /\ pc' = [pc EXCEPT ![t] = "lock"]
    /\ cur' = [cur EXCEPT ![t] = [h |-> h, op |-> c.op, args |-> c.args]]
    /\ ret' = [ret EXCEPT ![t] = NoRet]
    /\ seen' = [seen EXCEPT ![t] = Seen(h)]
    /\ ran' = [ran EXCEPT ![t] = FALSE]
    /\ wrote' = [wrote EXCEPT ![t] = FALSE]
    /\ cause' = [cause EXCEPT ![t] = "none"]
    /\ ncalls' = ncalls + 1
    /\ UNCHANGED <<store, oplog, repoHeads, slot, lockHolder, poisoned, held, ghost,
                   lg>>

\* One of the concurrent callers invokes an operation.
Call(t, h, c) == ncalls < MaxCalls /\ Invoke(t, h, c)

\* The single caller invokes an operation.
CallOps(t, h, c) == ncalls < MaxOps /\ Invoke(t, h, c)

\* self.inner.lock() that does not wait for the holder of the Mutex.
AcquiredAlways(holder) == TRUE

\* self.inner.lock() returns once no other thread holds the Mutex
\* (transaction.rs:40, 53, 63; git.rs:89, 99).
Acquired(holder) == holder = NoThread

\* A Mutex that is not poisoned by a panic: only the slot is checked.
SlotCheckNoPoison(h) == IF ~slot[h].present THEN "finalized" ELSE "go"

\* What self.inner.lock() and the slot check decide once the Mutex is free:
\* "lock" (poisoned), "finalized" (the slot is empty) or "go".
SlotCheck(h) ==
    IF poisoned[h] THEN "lock"
    ELSE IF ~slot[h].present THEN "finalized"
    ELSE "go"

Return(t, r, why) ==
    /\ pc' = [pc EXCEPT ![t] = "idle"]
    /\ ret' = [ret EXCEPT ![t] = r]
    /\ cause' = [cause EXCEPT ![t] = why]

\* with_transaction / with_transaction_mut up to the call of the closure
\* (transaction.rs:40-45, 53-58; git.rs:89-94).
Lock(t) ==
    LET h == cur[t].h IN
    /\ pc[t] = "lock"
    /\ cur[t].op \notin Finalizers
    /\ Acquired(lockHolder[h])
    /\ CASE SlotCheck(h) = "lock" ->
              Return(t, LockError, "lock") /\ UNCHANGED lockHolder
         [] SlotCheck(h) = "finalized" ->
              Return(t, FinalizedError, "finalized") /\ UNCHANGED lockHolder
         [] SlotCheck(h) = "go" ->
              /\ lockHolder' = [lockHolder EXCEPT ![h] = t]
              /\ pc' = [pc EXCEPT ![t] = "in"]
              /\ UNCHANGED <<ret, cause>>
    /\ UNCHANGED <<store, oplog, rest, slot, poisoned, cur, held, ghost,
                   seen, ran, wrote>>

\* A guard that is leaked: the Mutex stays locked after the call.
GuardKept(holder) == holder

\* The MutexGuard goes out of scope when the helper returns: the Mutex is
\* free again (transaction.rs:47, 60; git.rs:96).
GuardDropped(holder) == NoThread

\* f(tx) runs to its end under the lock; the guard is dropped on return
\* (transaction.rs:46, 59; git.rs:95).
Exec(t) ==
    LET h == cur[t].h IN
    /\ pc[t] = "in"
    /\ \E io \in {"ok", "fail"} :
         LET o == Closure(cur[t].op, slot[h], store, cur[t].args, io) IN
         /\ slot' = [slot EXCEPT ![h] = o.tx]
         /\ store' = o.store
         /\ wrote' = [wrote EXCEPT ![t] = o.wrote]
         /\ mutated' = [mutated EXCEPT ![h] =
                          @ \/ (cur[t].op \in MutatingOps /\ o.ret.kind = "Ok")]
         /\ Return(t, o.ret, "done")
    /\ lockHolder' = [lockHolder EXCEPT ![h] = GuardDropped(t)]
    /\ ran' = [ran EXCEPT ![t] = TRUE]
    /\ UNCHANGED <<oplog, rest, poisoned, cur, held, takes, durable, finalOk,
                   commitFailed, seen, taken>>

\* What guard.take() leaves in the slot (transaction.rs:66, git.rs:102).
TakenSlotKept(tx) == tx
TakenSlot(tx) == NoTx

\* FfiTransaction::discard / FfiGitTransaction::discard once the transaction
\* is taken (transaction.rs:266-268, git.rs:268-269): it is dropped, nothing
\* is published.
DiscardPublishes(h, tx, st) ==
    [ret |-> OkUnit, ops |-> <<[by |-> h, heads |-> EngineCommittedHeads(tx, st)]>>]
Discard(h, tx, st) == [ret |-> OkUnit, ops |-> <<>>]

\* take_transaction (transaction.rs:62-69, git.rs:98-105), and for discard
\* the rest of the call.
Take(t) ==
    LET h == cur[t].h IN
    /\ pc[t] = "lock"
    /\ cur[t].op \in Finalizers
    /\ Acquired(lockHolder[h])
    /\ CASE SlotCheck(h) = "lock" ->
              Return(t, LockError, "lock")
              /\ UNCHANGED <<slot, held, takes, finalOk, oplog, taken>>
         [] SlotCheck(h) = "finalized" ->
              Return(t, FinalizedError, "finalized")
              /\ UNCHANGED <<slot, held, takes, finalOk, oplog, taken>>
         [] SlotCheck(h) = "go" /\ cur[t].op = "discard" ->
              /\ slot' = [slot EXCEPT ![h] = TakenSlot(slot[h])]
              /\ takes' = [takes EXCEPT ![h].discard = @ + 1]
              /\ finalOk' = [finalOk EXCEPT ![h] = TRUE]
              /\ oplog' = oplog \o Discard(h, slot[h], store).ops
              /\ Return(t, Discard(h, slot[h], store).ret, "done")
              /\ UNCHANGED <<held, taken>>
         [] SlotCheck(h) = "go" /\ cur[t].op = "commit" ->
              /\ slot' = [slot EXCEPT ![h] = TakenSlot(slot[h])]
              /\ held' = [held EXCEPT ![t] = slot[h]]
              /\ taken' = [taken EXCEPT ![h] = slot[h]]
              /\ takes' = [takes EXCEPT ![h].commit = @ + 1]
              /\ pc' = [pc EXCEPT ![t] = "durable"]
              /\ UNCHANGED <<ret, cause, finalOk, oplog>>
    /\ UNCHANGED <<store, rest, lockHolder, poisoned, cur, durable,
                   commitFailed, mutated, seen, ran, wrote>>

\* inner.commit(&description), outside the lock (transaction.rs:257-261,
\* git.rs:259-263): the new operation is published, or the engine reports a
\* TransactionCommitError, or the engine's assertion on pending rewrite
\* records fails and the call panics (the Mutex is not held: no poisoning).
Durable(t) ==
    LET h == cur[t].h IN
    /\ pc[t] = "durable"
    /\ durable' = [durable EXCEPT ![h] = @ + 1]
    /\ ran' = [ran EXCEPT ![t] = TRUE]
    /\ held' = [held EXCEPT ![t] = NoTx]
    /\ IF EngineCommitPanics(held[t])
       THEN /\ Return(t, Panicked, "panic")
            /\ UNCHANGED <<oplog, finalOk, commitFailed>>
       ELSE \E io \in {"ok", "fail"} :
         IF io = "ok"
         THEN /\ oplog' = Append(oplog,
                     [by |-> h, heads |-> EngineCommittedHeads(held[t], store)])
              /\ Return(t, [kind |-> "Ok",
                            repo |-> EngineCommittedHeads(held[t], store)], "done")
              /\ finalOk' = [finalOk EXCEPT ![h] = TRUE]
              /\ UNCHANGED commitFailed
         ELSE /\ Return(t, Err("Transaction", "commit"), "done")
              /\ commitFailed' = [commitFailed EXCEPT ![h] = TRUE]
              /\ UNCHANGED <<oplog, finalOk>>
    /\ UNCHANGED <<store, rest, slot, lockHolder, poisoned, cur, takes, mutated,
                   seen, wrote, taken>>

\* The closure panics: the guard is dropped while unwinding, which poisons
\* the Mutex; the panic ends the call.
ExecPanic(t) ==
    LET h == cur[t].h IN
    /\ pc[t] = "in"
    /\ poisoned' = [poisoned EXCEPT ![h] = TRUE]
    /\ lockHolder' = [lockHolder EXCEPT ![h] = GuardDropped(t)]
    /\ ran' = [ran EXCEPT ![t] = TRUE]
    /\ Return(t, Panicked, "panic")
    /\ UNCHANGED <<store, oplog, rest, slot, cur, held, ghost, seen, wrote>>

Next ==
    \/ \E t \in Threads, h \in Handles : \E c \in CoreCallsOf(h) : Call(t, h, c)
    \/ \E t \in Threads : Lock(t)
    \/ \E t \in Threads : Exec(t)
    \/ \E t \in Threads : Take(t)
    \/ \E t \in Threads : Durable(t)

\* Concurrent callers on both handles; no closure panics under the lock.
Spec == Init /\ [][Next]_vars

NextPanic == Next \/ \E t \in Threads : ExecPanic(t)

\* The same callers when a closure may panic under the lock.
SpecPanic == Init /\ [][NextPanic]_vars

\* One step of the call thread t is in.
Step(t) == Lock(t) \/ Take(t) \/ Exec(t) \/ ExecPanic(t) \/ Durable(t)

\* The states where Step(t) is enabled: the thread is inside a closure or an
\* engine commit, or it waits for a Mutex that is free.
CanStep(t) ==
    \/ pc[t] \in {"in", "durable"}
    \/ pc[t] = "lock" /\ Acquired(lockHolder[cur[t].h])

\* CanStep is the enabling condition of Step.
CanStepIsEnabled == \A t \in Threads : CanStep(t) <=> ENABLED <<Step(t)>>_vars

\* The scheduler runs every thread that can take a step, and every engine
\* call comes to an end (by returning or by panicking): weak fairness of
\* Step(t), with CanStep(t) for its enabling condition.
Fairness ==
    \A t \in Threads : ([]<>(~CanStep(t))) \/ ([]<><<Step(t)>>_vars)

\* The calls of the callers under the fair scheduler.
LiveCallsOf(h) ==
    IF h = "tx"
    THEN {[op |-> "update_description",
           args |-> [Args EXCEPT !.target = T(BaseId), !.description = "b"]],
          [op |-> "has_changes", args |-> Args],
          [op |-> "commit", args |-> Args]}
    ELSE {[op |-> "fetch", args |-> Args], [op |-> "discard", args |-> Args]}

CallLive(t, h, c) == ncalls < MaxLive /\ Invoke(t, h, c)

NextLive ==
    \/ \E t \in Threads, h \in Handles : \E c \in LiveCallsOf(h) : CallLive(t, h, c)
    \/ \E t \in Threads : Lock(t)
    \/ \E t \in Threads : Exec(t)
    \/ \E t \in Threads : Take(t)
    \/ \E t \in Threads : Durable(t)
    \/ \E t \in Threads : ExecPanic(t)

\* Concurrent callers under a fair scheduler.
SpecLive == Init /\ [][NextLive]_vars /\ Fairness

NextOps ==
    \/ \E h \in Handles : \E c \in CallsOf(h) : CallOps("t1", h, c)
    \/ Lock("t1")
    \/ Exec("t1")
    \/ Take("t1")
    \/ Durable("t1")

\* One caller, every operation with the full range of arguments.
SpecOps == Init /\ [][NextOps]_vars

\* --------------------------------------------------- the root-only scenario
\* The calls of the caller who starts from a repository holding the root
\* commit only.
ScenarioCalls ==
    {[op |-> "create_empty_commit",
      args |-> [Args EXCEPT !.parent_ids = <<T(RootId)>>, !.description = "a"]],
     [op |-> "create_commit_from_parent",
      args |-> [Args EXCEPT !.target = T(FreshId(1)), !.description = "b"]],
     [op |-> "update_description",
      args |-> [Args EXCEPT !.target = T(FreshId(1)), !.description = "b"]],
     [op |-> "abandon_commit", args |-> [Args EXCEPT !.target = T(FreshId(1))]],
     [op |-> "has_changes", args |-> Args],
     [op |-> "commit", args |-> Args],
     [op |-> "discard", args |-> Args]}

CallScenario(t, h, c) == ncalls < MaxScenario /\ Invoke(t, h, c)

InitScenario == InitFrom({RootCommit}, {RootId})

NextScenario ==
    \/ \E c \in ScenarioCalls : CallScenario("t1", "tx", c)
    \/ Lock("t1")
    \/ Exec("t1")
    \/ Take("t1")
    \/ Durable("t1")

\* One caller and one transaction on a root-only repository.
SpecScenario == InitScenario /\ [][NextScenario]_vars

\* ------------------------------------------------------------ the log calls
CommitAt(n, parents) ==
    [id |-> IdOf(n), change |-> IdOf(n), description |-> "c",
     parents |-> parents, author |-> "settings", tree |-> "empty"]

\* The repositories a log is asked of: the root alone; one commit; two
\* branches written in turn; a merge; a chain.
LogRepos ==
    {[store |-> {RootCommit}, heads |-> {RootId}],
     [store |-> {RootCommit, BaseCommit}, heads |-> {BaseId}],
     [store |-> {RootCommit, BaseCommit, CommitAt(11, <<RootId>>),
                 CommitAt(12, <<BaseId>>), CommitAt(13, <<IdOf(11)>>)},
      heads |-> {IdOf(12), IdOf(13)}],
     [store |-> {RootCommit, BaseCommit, CommitAt(11, <<RootId>>),
                 CommitAt(12, <<BaseId, IdOf(11)>>)},
      heads |-> {IdOf(12)}],
     [store |-> {RootCommit, BaseCommit, CommitAt(11, <<BaseId>>),
                 CommitAt(12, <<IdOf(11)>>)},
      heads |-> {IdOf(12)}]}

LogRevisions ==
    {<<>>, <<AllText>>, <<T(IdOf(12))>>, <<T(IdOf(12)), T(RootId)>>,
     <<T(IdOf(13)), T(IdOf(12))>>, << <<"(">> >>, << <<"f", "f">> >>}

LogOptions ==
    [revisions : LogRevisions, limit : (-2)..MaxLimit, reversed : BOOLEAN]

LogFaults == [evaluate : BOOLEAN, walk : 0..MaxLimit, load : 0..MaxLimit]

InitLog == \E r \in LogRepos : InitFrom(r.store, r.heads)

\* A caller asks a repository handle for a log.
LogCall(flat, options, fault) ==
    /\ lg.op = "none"
    /\ lg' = [op |-> IF flat THEN "evaluate_log_flat" ELSE "evaluate_log",
              options |-> options, fault |-> fault,
              res |-> IF flat
                      THEN EvaluateLogFlat(Repo(store, repoHeads), options, fault)
                      ELSE EvaluateLog(Repo(store, repoHeads), options, fault)]
    /\ UNCHANGED <<store, oplog, repoHeads, slot, lockHolder, poisoned, pc, cur,
                   ret, held, ghost, seen, ran, wrote, cause, ncalls>>

NextLog ==
    \E flat \in BOOLEAN, o \in LogOptions, f \in LogFaults : LogCall(flat, o, f)

\* Logs asked of a repository handle, with every fault the build can meet.
SpecLog == InitLog /\ [][NextLog]_vars

\* ------------------------------------------- the phases of a query call
\* A query on a repository handle, one engine call at a time.  lg holds the
\* call in progress: the phase it is about to enter (pc), the index of the
\* next revision to parse, and the engine calls made so far (trace).
RevsetOps == {"evaluate_revset", "evaluate_revset_to_commits", "count_revset"}
LogOps == {"evaluate_log", "evaluate_log_flat"}

NoRes == [ret |-> NoRet, fetched |-> 0]

\* The revisions a revset call is made with: one text.
RevsetTexts ==
    {AllText, T(IdOf(12)), <<"0">>, <<"f", "f">>, <<"(">>,
     T(IdOf(12)) \o <<"|">> \o T(RootId), T(IdOf(12)) \o <<"|">> \o <<"(">>,
     AllText \o <<"|">> \o T(IdOf(12))}

\* The revision lists a log call is made with.
PhaseRevisions ==
    {<<>>, <<T(IdOf(12)), T(RootId)>>, <<T(RootId), T(IdOf(12))>>,
     <<T(IdOf(12)), <<"(">>, T(RootId)>>, << <<"(">>, <<"f", "f">> >>,
     <<T(IdOf(12)), <<"f", "f">> >>, <<AllText, T(IdOf(12))>>}

PhaseFaults == [evaluate : BOOLEAN, walk : 0..MaxLimit, load : {0}]

\* The phase entered first: an empty revisions list is RevsetExpression::all()
\* and nothing is parsed (log.rs:110-112, 211-213).
FirstPhase(revisions) == IF revisions = <<>> THEN "resolve" ELSE "parse"

\* A call of a query operation on the handle.
QueryCall(op, options, fault) ==
    /\ lg.op = "none"
    /\ lg' = [op |-> op, pc |-> FirstPhase(options.revisions), options |-> options,
              fault |-> fault, next |-> 1, trace |-> <<>>, res |-> NoRes]
    /\ UNCHANGED <<store, oplog, repoHeads, slot, lockHolder, poisoned, pc, cur,
                   ret, held, ghost, seen, ran, wrote, cause, ncalls>>

\* An error whose kind names the phase that failed.
FailedWithPhaseKind(message) ==
    [lg EXCEPT !.pc = "done", !.res = [ret |-> Err(message, message), fetched |-> 0]]

\* The call has ended with an error: every map_err of the phases builds
\* JjError::Revset with the engine's message (revset.rs:39-56, log.rs:117-142).
Failed(message) ==
    [lg EXCEPT !.pc = "done", !.res = [ret |-> Err("Revset", message), fetched |-> 0]]

\* A loop over the revisions that goes on after a revision failed to parse.
AfterParseKeepGoing(ok, i, n) == IF i = n THEN "resolve" ELSE "parse"

\* Where the call goes after parsing revision i of n: `?` returns on the
\* first failure (revset.rs:39-43, log.rs:117-121); after the last revision
\* the union is resolved.
AfterParse(ok, i, n) ==
    IF ~ok THEN "done" ELSE IF i = n THEN "resolve" ELSE "parse"

\* parse(&mut diagnostics, rev_str, &context) (revset.rs:39, log.rs:117).
ParsePhase ==
    /\ lg.op # "none" /\ lg.pc = "parse"
    /\ LET i == lg.next
           n == Len(lg.options.revisions)
           ok == ParseRevset(lg.options.revisions[i]).ok
           to == AfterParse(ok, i, n)
           tr == Append(lg.trace, [phase |-> "parse", arg |-> i])
       IN  lg' = IF to = "done"
                 THEN [Failed("parse") EXCEPT !.trace = tr]
                 ELSE [lg EXCEPT !.pc = to, !.next = i + 1, !.trace = tr]
    /\ UNCHANGED <<store, oplog, repoHeads, slot, lockHolder, poisoned, pc, cur,
                   ret, held, ghost, seen, ran, wrote, cause, ncalls>>

\* resolve_user_expression on the one expression, or on the union of the
\* parsed revisions (revset.rs:46-50, log.rs:131-136).
ResolvePhase ==
    /\ lg.op # "none" /\ lg.pc = "resolve"
    /\ LET revs == lg.options.revisions
           ok == \A i \in 1..Len(revs) :
                    ResolveRevset(Repo(store, repoHeads), ParseRevset(revs[i]).expr).ok
           tr == Append(lg.trace, [phase |-> "resolve", arg |-> 0])
       IN  lg' = IF ok THEN [lg EXCEPT !.pc = "evaluate", !.trace = tr]
                 ELSE [Failed("resolve") EXCEPT !.trace = tr]
    /\ UNCHANGED <<store, oplog, repoHeads, slot, lockHolder, poisoned, pc, cur,
                   ret, held, ghost, seen, ran, wrote, cause, ncalls>>

\* resolved_expression.evaluate(repo) (revset.rs:52-56, log.rs:138-142).
EvaluatePhase ==
    /\ lg.op # "none" /\ lg.pc = "evaluate"
    /\ LET tr == Append(lg.trace, [phase |-> "evaluate", arg |-> 0])
       IN  lg' = IF lg.fault.evaluate THEN [Failed("evaluate") EXCEPT !.trace = tr]
                 ELSE [lg EXCEPT !.pc = "iterate", !.trace = tr]
    /\ UNCHANGED <<store, oplog, repoHeads, slot, lockHolder, poisoned, pc, cur,
                   ret, held, ghost, seen, ran, wrote, cause, ncalls>>

\* The iteration of the evaluated set: the loops of revset.rs, or the log
\* build (log.rs:144-186, 242-278).
IteratePhase ==
    /\ lg.op # "none" /\ lg.pc = "iterate"
    /\ LET repo == Repo(store, repoHeads)
           set == EvaluateRevisions(repo, lg.options.revisions, FALSE).ids
           tr == Append(lg.trace, [phase |-> "iterate", arg |-> 0])
       IN  lg' = [lg EXCEPT
                    !.pc = "done", !.trace = tr,
                    !.res = IF lg.op = "evaluate_log"
                            THEN EvaluateLog(repo, lg.options, lg.fault)
                            ELSE IF lg.op = "evaluate_log_flat"
                            THEN EvaluateLogFlat(repo, lg.options, lg.fault)
                            ELSE [ret |-> RevsetIterate(lg.op, repo, set, lg.fault),
                                  fetched |-> 0]]
    /\ UNCHANGED <<store, oplog, repoHeads, slot, lockHolder, poisoned, pc, cur,
                   ret, held, ghost, seen, ran, wrote, cause, ncalls>>

NextQuery ==
    \/ \E op \in RevsetOps, text \in RevsetTexts, f \in PhaseFaults :
          QueryCall(op, [revisions |-> <<text>>, limit |-> -1, reversed |-> FALSE], f)
    \/ \E op \in LogOps, revs \in PhaseRevisions, f \in PhaseFaults :
          QueryCall(op, [revisions |-> revs, limit |-> -1, reversed |-> FALSE], f)
    \/ ParsePhase
    \/ ResolvePhase
    \/ EvaluatePhase
    \/ IteratePhase

\* Queries asked of a repository handle, engine call by engine call.
SpecQuery == InitLog /\ [][NextQuery]_vars

\* ------------------------------------------------------- the fetch calls
\* The pattern lists fetch is called with: none; a name; a name no branch
\* has; globs; a glob that does not compile; lists of several, in both orders.
FetchPatterns ==
    {<<>>, << <<"m">> >>, << <<"x">> >>, << <<"m", "*">> >>, << <<"*", "m">> >>,
     << <<"*">> >>, << <<"[", "*">> >>, << <<"d">>, <<"m", "*">> >>,
     << <<"m", "*">>, <<"d">> >>, << <<"m">>, <<"m", "*">> >>,
     << <<"d">>, <<"[", "*">>, <<"*", "m">> >>}

FetchCall(patterns) ==
    /\ ncalls < MaxScenario
    /\ Invoke("t1", "git", [op |-> "fetch",
                            args |-> [Args EXCEPT !.branch_patterns = patterns]])

NextFetch ==
    \/ \E patterns \in FetchPatterns : FetchCall(patterns)
    \/ Lock("t1")
    \/ Exec("t1")

\* One caller fetching on a git transaction.
SpecFetch == Init /\ [][NextFetch]_vars

\* ------------------------------------------------- the identity codec calls
\* The byte values and the characters identifiers are made of here.
CodecBytes == {0, 9, 10, 15, 16, 154, 171, 255}
CodecChars == {"0", "9", "a", "f", "A", "F", "k", "z", "K", "g"}

RECURSIVE SeqsUpTo(_, _)
\* The sequences over `set` of length up to n.
SeqsUpTo(set, n) ==
    IF n = 0 THEN {<<>>}
    ELSE SeqsUpTo(set, n - 1)
         \cup {Append(q, x) : q \in {r \in SeqsUpTo(set, n - 1) : Len(r) = n - 1},
                              x \in set}

\* An identifier of the engine is handed to the caller and comes back:
\* From<&CommitId> then TryFrom<&FfiCommitId> (ids.rs:19-38).
EncodeCommitId(bytes) ==
    /\ lg.op = "none"
    /\ lg' = [op |-> "encode_commit_id", bytes |-> bytes, text |-> FfiCommitIdFrom(bytes),
              back |-> CommitIdTryFrom(FfiCommitIdFrom(bytes))]
    /\ UNCHANGED <<store, oplog, repoHeads, slot, lockHolder, poisoned, pc, cur,
                   ret, held, ghost, seen, ran, wrote, cause, ncalls>>

\* The same for a change id (ids.rs:53-75).
EncodeChangeId(bytes) ==
    /\ lg.op = "none"
    /\ lg' = [op |-> "encode_change_id", bytes |-> bytes, text |-> FfiChangeIdFrom(bytes),
              back |-> ChangeIdTryFrom(FfiChangeIdFrom(bytes))]
    /\ UNCHANGED <<store, oplog, repoHeads, slot, lockHolder, poisoned, pc, cur,
                   ret, held, ghost, seen, ran, wrote, cause, ncalls>>

\* A text of the caller is converted as a commit id and as a change id.
DecodeText(text) ==
    /\ lg.op = "none"
    /\ lg' = [op |-> "decode", text |-> text, commit |-> CommitIdTryFrom(text),
              change |-> ChangeIdTryFrom(text)]
    /\ UNCHANGED <<store, oplog, repoHeads, slot, lockHolder, poisoned, pc, cur,
                   ret, held, ghost, seen, ran, wrote, cause, ncalls>>

NextCodec ==
    \/ \E bytes \in SeqsUpTo(CodecBytes, IdBytes) : EncodeCommitId(bytes)
    \/ \E bytes \in SeqsUpTo(CodecBytes, IdBytes) : EncodeChangeId(bytes)
    \/ \E text \in SeqsUpTo(CodecChars, 2 * IdBytes) : DecodeText(text)

\* Identifiers crossing the boundary in both directions.
SpecCodec == Init /\ [][NextCodec]_vars

\* ------------------------------------------- identifier resolution calls
\* The repositories identifiers are resolved on: those of the log, one with
\* two visible commits of one change (divergence), and one where a change has
\* a visible commit and a commit no head reaches.
ResolveRepos ==
    LogRepos \cup
    {[store |-> {RootCommit, BaseCommit,
                 [CommitAt(11, <<RootId>>) EXCEPT !.change = BaseId]},
      heads |-> {BaseId, IdOf(11)}],
     [store |-> {RootCommit, BaseCommit,
                 [CommitAt(11, <<RootId>>) EXCEPT !.change = BaseId],
                 [CommitAt(12, <<RootId>>) EXCEPT !.change = IdOf(12)],
                 [CommitAt(13, <<RootId>>) EXCEPT !.change = IdOf(12)]},
      heads |-> {BaseId, IdOf(12)}]}

\* All of a text but its last character.
Chop(text) == SubSeq(text, 1, Len(text) - 1)

\* The prefixes asked for: none, a leading part of an id, whole ids in either
\* case, an id no commit has, a text longer than an id, texts with a
\* character that is no hex digit.
PrefixTexts ==
    {<<>>, Chop(T(IdOf(12))), T(IdOf(12)), UpperText(T(IdOf(12))), T(RootId),
     T(IdOf(17)), Chop(T(IdOf(17))), T(IdOf(12)) \o <<"0">>,
     <<"g">>, Chop(T(RootId)) \o <<"x">>}

\* The change ids asked for: those of stored commits, one no commit has, the
\* empty text, a text of odd length, a text in plain hex.
ChangeTexts ==
    {FfiChangeIdFrom(RootId), FfiChangeIdFrom(BaseId), FfiChangeIdFrom(IdOf(12)),
     FfiChangeIdFrom(IdOf(11)), FfiChangeIdFrom(IdOf(5)), <<>>,
     Chop(FfiChangeIdFrom(BaseId)), T(BaseId)}

InitResolve == \E r \in ResolveRepos : InitFrom(r.store, r.heads)

\* A caller asks the handle to resolve a commit id prefix.
ResolvePrefixCall(prefix, indexFails) ==
    /\ lg.op = "none"
    /\ lg' = [op |-> "resolve_commit_prefix", arg |-> prefix, indexFails |-> indexFails,
              ret |-> ResolveCommitPrefixOn(Repo(store, repoHeads), prefix, indexFails)]
    /\ UNCHANGED <<store, oplog, repoHeads, slot, lockHolder, poisoned, pc, cur,
                   ret, held, ghost, seen, ran, wrote, cause, ncalls>>

\* A caller asks the handle to resolve a change id.
ResolveChangeCall(text, indexFails) ==
    /\ lg.op = "none"
    /\ lg' = [op |-> "resolve_change_id", arg |-> text, indexFails |-> indexFails,
              ret |-> ResolveChangeIdOn(Repo(store, repoHeads), text, indexFails)]
    /\ UNCHANGED <<store, oplog, repoHeads, slot, lockHolder, poisoned, pc, cur,
                   ret, held, ghost, seen, ran, wrote, cause, ncalls>>

NextResolve ==
    \/ \E prefix \in PrefixTexts, f \in BOOLEAN : ResolvePrefixCall(prefix, f)
    \/ \E text \in ChangeTexts, f \in BOOLEAN : ResolveChangeCall(text, f)

\* Identifier resolutions asked of a repository handle.
SpecResolve == InitResolve /\ [][NextResolve]_vars

\* ------------------------------------------------------------------ claims
Done(t) == pc[t] = "idle" /\ cur[t].op # "none"

\* The call returned the "already finalized" error.
GotFinalized(t) ==
    /\ ret[t].kind = "Internal"
    /\ ret[t].message = "Transaction has already been committed or discarded"

\* The call returned the lock-failure error.
GotLockFailure(t) ==
    /\ ret[t].kind = "Internal"
    /\ ret[t].message = "Failed to acquire transaction lock"

PublishedBy(h) == {i \in 1..Len(oplog) : oplog[i].by = h}

\* The commit or discard call got the transaction out of the slot (a commit
\* then ended with the engine's answer, or with the engine's panic).
TookSlot(t) == cause[t] \in {"done", "panic"}

\* C1: a call made on a handle after a commit or discard of that handle has
\* returned success never gets past the slot check (it never runs its closure
\* and never takes the transaction), and it returns the "already finalized"
\* error without having reached the engine.
C1_AfterSuccessFinalized ==
    \A t \in Threads :
        (cur[t].op # "none" /\ seen[t].ok) =>
            /\ pc[t] \in {"idle", "lock"}
            /\ ~ran[t]
            /\ Done(t) => GotFinalized(t)

\* C1 witness: each kind of call (a closure operation, a commit) has been made
\* after a success on its handle and has returned.
C1_Witness ==
    \E t \in Threads :
        /\ Done(t) /\ seen[t].ok /\ GotFinalized(t)
        /\ cur[t].op \in {"create_empty_commit", "push_branches"}

\* C2: of two commit calls made on the same handle while it was still
\* Active, exactly one obtains the transaction and runs the durability step,
\* the other returns "already finalized" without reaching the engine; the
\* durability step runs at most once per handle and at most one operation is
\* published for it.
C2_ConcurrentCommit ==
    /\ \A h \in Handles : durable[h] <= 1 /\ Cardinality(PublishedBy(h)) <= 1
    /\ \A t \in Threads, u \in Threads :
         (/\ t # u /\ Done(t) /\ Done(u)
          /\ cur[t].h = cur[u].h
          /\ cur[t].op = "commit" /\ cur[u].op = "commit"
          /\ seen[t].present /\ seen[u].present)
         => \E w \in {t, u} : \E l \in {t, u} \ {w} :
               /\ TookSlot(w) /\ ran[w]
               /\ ret[w].kind \in {"Ok", "Transaction", "Panic"}
               /\ GotFinalized(l) /\ ~ran[l]
               /\ durable[cur[t].h] = 1

\* C2 witness: both concurrent commits have returned, one with the new
\* repository.
C2_Witness ==
    \E t \in Threads, u \in Threads :
        /\ t # u /\ Done(t) /\ Done(u) /\ cur[t].h = cur[u].h
        /\ cur[t].op = "commit" /\ cur[u].op = "commit"
        /\ seen[t].present /\ seen[u].present
        /\ ret[t].kind = "Ok" /\ GotFinalized(u)

IsActive(h) == slot[h].present
IsCommitted(h) == takes[h].commit > 0
IsDiscarded(h) == takes[h].discard > 0

\* C3: every handle is in exactly one of Active (slot populated), Committed
\* (emptied by a commit) and Discarded (emptied by a discard); the slot is
\* emptied at most once, so a handle that has left Active is never Active
\* again; of a commit and a discard made while the handle was Active exactly
\* one takes the slot.
C3_ExactlyOneState ==
    /\ \A h \in Handles :
         /\ takes[h].commit + takes[h].discard <= 1
         /\ IsActive(h) <=> ~(IsCommitted(h) \/ IsDiscarded(h))
         /\ ~(IsCommitted(h) /\ IsDiscarded(h))
    /\ \A t \in Threads, u \in Threads :
         (/\ t # u /\ Done(t) /\ Done(u)
          /\ cur[t].h = cur[u].h
          /\ cur[t].op = "commit" /\ cur[u].op = "discard"
          /\ seen[t].present /\ seen[u].present)
         => /\ TookSlot(t) # TookSlot(u)
            /\ TookSlot(t) \/ GotFinalized(t)
            /\ TookSlot(u) \/ GotFinalized(u)

\* C3 witness: a commit and a discard raced for the same Active handle and
\* the discard won.
C3_Witness ==
    \E t \in Threads, u \in Threads :
        /\ t # u /\ Done(t) /\ Done(u) /\ cur[t].h = cur[u].h
        /\ cur[t].op = "commit" /\ cur[u].op = "discard"
        /\ seen[t].present /\ seen[u].present
        /\ GotFinalized(t) /\ ret[u].kind = "Ok"
        /\ IsDiscarded(cur[t].h) /\ ~IsActive(cur[t].h)

\* C4: a commit whose durability step fails returns a Transaction error, the
\* slot stays empty, the durability step is never run a second time for the
\* handle, and every call made after the failure returns "already finalized"
\* without reaching the engine.
C4_FailedCommitFinal ==
    /\ \A h \in Handles :
         commitFailed[h] => ~slot[h].present /\ durable[h] = 1
                            /\ PublishedBy(h) = {}
    /\ \A t \in Threads :
         /\ (Done(t) /\ cur[t].op = "commit" /\ cause[t] = "done"
               /\ ret[t].kind # "Ok")
            => ret[t].kind = "Transaction" /\ commitFailed[cur[t].h]
         /\ (cur[t].op # "none" /\ seen[t].failed) =>
               /\ pc[t] \in {"idle", "lock"}
               /\ ~ran[t]
               /\ Done(t) => GotFinalized(t)

\* C4 witness: a second commit was made after the first one failed.
C4_Witness ==
    \E t \in Threads :
        /\ Done(t) /\ seen[t].failed /\ cur[t].op = "commit" /\ GotFinalized(t)

\* C5 as stated: a lock failure is an Internal error, while "already
\* finalized" is reported with a kind other than the lock failure's; neither
\* is a success.
C5_Original ==
    \A t \in Threads :
        Done(t) =>
            /\ cause[t] = "lock" => ret[t].kind = "Internal"
            /\ cause[t] = "finalized" => ret[t].kind \notin {"Internal", "Ok"}

\* C5 as amended: a lock failure and "already finalized" are both reported
\* as Internal errors and differ in their message only ("Failed to acquire
\* transaction lock" against "Transaction has already been committed or
\* discarded"); neither is a success.
C5_BothInternal ==
    \A t \in Threads :
        Done(t) =>
            /\ cause[t] = "lock" => GotLockFailure(t) /\ ~ran[t]
            /\ cause[t] = "finalized" => GotFinalized(t) /\ ~ran[t]
            /\ cause[t] \in {"lock", "finalized"} => ret[t].kind # "Ok"

\* C5 witness: a call found the Mutex poisoned and returned the lock failure.
C5_Witness ==
    \E t \in Threads : Done(t) /\ cause[t] = "lock" /\ GotLockFailure(t)

\* The supplied parent id at position i is valid hex and names a stored commit.
Resolves(texts, i) ==
    /\ DecodeAll(texts)[i].ok
    /\ DecodeAll(texts)[i].bytes \in StoreIds(store)

CreateDone(t) ==
    Done(t) /\ cur[t].op = "create_empty_commit" /\ cause[t] = "done"

\* C6 as stated: create_empty_commit returns InvalidArgument and writes no
\* commit when the parent list is empty and when a supplied parent id does
\* not resolve to a stored commit.
C6_Original ==
    \A t \in Threads :
        LET p == cur[t].args.parent_ids IN
        (CreateDone(t) /\ (Len(p) = 0 \/ \E i \in 1..Len(p) : ~Resolves(p, i)))
        => /\ ret[t].kind = "InvalidArgument"
           /\ ~wrote[t]
           /\ Cardinality(store) = seen[t].nstore

\* C6 as amended: create_empty_commit returns InvalidArgument exactly when
\* the parent list is empty or a supplied id is not valid hex, and it then
\* does not reach the write and stores nothing; a well-formed id that names
\* no stored commit is not checked by the facade: the call fails in the
\* engine's write and returns a Backend error, and no commit is stored.
C6_InvalidArgumentCases ==
    \A t \in Threads :
        LET p == cur[t].args.parent_ids IN
        CreateDone(t) =>
          /\ (Len(p) = 0 \/ ~AllDecoded(p)) <=> ret[t].kind = "InvalidArgument"
          /\ ret[t].kind = "InvalidArgument" =>
                ~wrote[t] /\ Cardinality(store) = seen[t].nstore
          /\ (Len(p) > 0 /\ AllDecoded(p) /\ \E i \in 1..Len(p) : ~Resolves(p, i))
             => ret[t].kind = "Backend" /\ Cardinality(store) = seen[t].nstore

\* C6 witness: create_empty_commit was refused for an empty parent list.
C6_Witness ==
    \E t \in Threads :
        /\ CreateDone(t) /\ Len(cur[t].args.parent_ids) = 0
        /\ ret[t].kind = "InvalidArgument"

\* C7: a successful create_empty_commit returns a commit whose parent ids
\* are the supplied ids in the supplied order (the same bytes, written in
\* lowercase hex) and whose description is the supplied one; a successful
\* create_commit_from_parent returns a commit with the one parent supplied.
C7_ParentsAndDescription ==
    \A t \in Threads :
        LET a == cur[t].args IN
        /\ (CreateDone(t) /\ ret[t].kind = "Ok") =>
              /\ AllDecoded(ret[t].commit.parent_ids)
              /\ DecodedIds(ret[t].commit.parent_ids) = DecodedIds(a.parent_ids)
              /\ ret[t].commit.parent_ids =
                    [i \in 1..Len(a.parent_ids) |->
                        EncodeHex(DecodedIds(a.parent_ids)[i])]
              /\ ret[t].commit.description = a.description
        /\ (Done(t) /\ cur[t].op = "create_commit_from_parent" /\ ret[t].kind = "Ok")
           => /\ Len(ret[t].commit.parent_ids) = 1
              /\ DecodeHex(ret[t].commit.parent_ids[1]) = DecodeHex(a.target)
              /\ ret[t].commit.description = a.description

\* C7 witness: a commit with two parents was created, and its parents came
\* back in the order supplied.
C7_Witness ==
    \E t \in Threads :
        /\ CreateDone(t) /\ ret[t].kind = "Ok"
        /\ cur[t].args.parent_ids = <<T(RootId), T(FreshId(1))>>
        /\ ret[t].commit.parent_ids = <<T(RootId), T(FreshId(1))>>

\* The target of a rewrite is valid hex and names a stored commit.
TargetResolves(t) ==
    /\ DecodeHex(cur[t].args.target).ok
    /\ DecodeHex(cur[t].args.target).bytes \in StoreIds(store)

Target(t) == StoreGet(store, DecodeHex(cur[t].args.target).bytes)

\* C8: for a target that resolves, a successful rewrite_commit returns a new
\* commit (another id) with the target's change id and author, whose
\* description is the new description if supplied and the target's otherwise
\* and whose parents are the new parents if supplied and the target's
\* otherwise; a supplied empty list of new parents is refused with
\* InvalidArgument before any write; update_description changes the
\* description only; the target stays in the store.
C8_RewriteSuppliedFields ==
    \A t \in Threads :
        LET a == cur[t].args IN
        /\ (Done(t) /\ cur[t].op = "rewrite_commit" /\ ret[t].kind = "Ok") =>
              /\ TargetResolves(t)
              /\ ret[t].commit.id # FfiCommitIdFrom(Target(t).id)
              /\ ret[t].commit.change_id = FfiChangeIdFrom(Target(t).change)
              /\ ret[t].commit.author = Target(t).author
              /\ ret[t].commit.description =
                    (IF a.new_description # None THEN a.new_description
                                                 ELSE Target(t).description)
              /\ DecodedIds(ret[t].commit.parent_ids) =
                    (IF a.new_parent_ids.some THEN DecodedIds(a.new_parent_ids.ids)
                                              ELSE Target(t).parents)
        /\ (/\ Done(t) /\ cur[t].op = "rewrite_commit" /\ cause[t] = "done"
            /\ TargetResolves(t)
            /\ a.new_parent_ids.some /\ Len(a.new_parent_ids.ids) = 0)
           => /\ ret[t].kind = "InvalidArgument"
              /\ ~wrote[t]
              /\ Cardinality(store) = seen[t].nstore
        /\ (Done(t) /\ cur[t].op = "update_description" /\ ret[t].kind = "Ok") =>
              /\ TargetResolves(t)
              /\ ret[t].commit.description = a.description
              /\ DecodedIds(ret[t].commit.parent_ids) = Target(t).parents
              /\ ret[t].commit.change_id = FfiChangeIdFrom(Target(t).change)

\* C8 witness: a commit created with description "a" was rewritten with new
\* parents and no new description, and the result kept the description.
C8_Witness ==
    \E t \in Threads :
        /\ Done(t) /\ cur[t].op = "rewrite_commit" /\ ret[t].kind = "Ok"
        /\ cur[t].args.new_description = None
        /\ cur[t].args.new_parent_ids.some
        /\ ret[t].commit.description = "a"
        /\ ret[t].commit.parent_ids = <<T(RootId)>>

\* C9: once a create, rewrite or abandon has succeeded on a transaction,
\* the transaction reports changes for as long as it is Active: has_changes
\* returns true in every call made after that success.
C9_HasChangesAfterMutation ==
    /\ \A h \in Handles :
         (slot[h].present /\ mutated[h]) =>
             HasChanges(slot[h], store, Args, "ok").ret = OkBool(TRUE)
    /\ \A t \in Threads :
         (Done(t) /\ cur[t].op = "has_changes" /\ cause[t] = "done"
            /\ seen[t].mutated)
         => ret[t] = OkBool(TRUE)

\* C9 witness: has_changes was asked after a successful operation and
\* answered true.
C9_Witness ==
    \E t \in Threads :
        /\ Done(t) /\ cur[t].op = "has_changes" /\ seen[t].mutated
        /\ ret[t] = OkBool(TRUE)

\* The commits the FfiReadonlyRepo the transactions were started from shows.
VisibleFromRepo == AncestorsOf(store, repoHeads)

\* C10: a discard that finds the transaction in the slot returns success and
\* empties the slot (a discard fails only with "already finalized", when the
\* handle had left Active before); a discarded transaction publishes no
\* operation, and the repository handle it was started from shows the commits
\* it showed before.
C10_DiscardNoEffect ==
    /\ \A t \in Threads :
         (Done(t) /\ cur[t].op = "discard") =>
            /\ cause[t] = "done" =>
                 ret[t] = OkUnit /\ IsDiscarded(cur[t].h) /\ ~IsActive(cur[t].h)
            /\ cause[t] # "done" => GotFinalized(t) /\ ~IsActive(cur[t].h)
    /\ \A h \in Handles :
         IsDiscarded(h) =>
            /\ PublishedBy(h) = {}
            /\ repoHeads = {BaseId}
            /\ VisibleFromRepo = {RootId, BaseId}

\* C10 witness: a transaction with accumulated changes was discarded.
C10_Witness ==
    \E t \in Threads :
        /\ Done(t) /\ cur[t].op = "discard" /\ ret[t] = OkUnit
        /\ seen[t].mutated /\ cur[t].h = "tx"

\* ------------------------------------------------- the handle is a snapshot
\* The repository handle H the transactions were started from, now and as it
\* was when they were started.
H == Repo(store, repoHeads)
HAtStart == Repo({RootCommit, BaseCommit}, {BaseId})

\* What a caller may hand to a query on H.
QueryTexts ==
    {T(BaseId), UpperText(T(BaseId)), T(FreshId(1)), BadText, <<"0">>, AllText,
     FfiChangeIdFrom(BaseId), FfiChangeIdFrom(FreshId(1))}

\* The queries answered by the handle's own index and view.
IndexQueriesUnchanged ==
    \A q \in QueryTexts :
        /\ ResolveCommitPrefix(H, q) = ResolveCommitPrefix(HAtStart, q)
        /\ ResolveChangeId(H, q) = ResolveChangeId(HAtStart, q)
        /\ EvaluateRevset(H, q) = EvaluateRevset(HAtStart, q)

EntryIds(entries) == [i \in 1..Len(entries) |-> entries[i].commit.id]

AllOptions == [revisions |-> <<>>, limit |-> -1, reversed |-> FALSE]

\* The caller has created a commit on the root, abandoned it, and called
\* commit, which took the transaction.
ScenarioARan(t) ==
    /\ Done(t) /\ cur[t].op = "commit" /\ cur[t].h = "tx" /\ TookSlot(t)
    /\ StoreIds(store) = {RootId, FreshId(1)}
    /\ StoreGet(store, FreshId(1)).parents = <<RootId>>
    /\ taken["tx"].present
    /\ taken["tx"].rewrites = {[old |-> FreshId(1), kind |-> "Abandoned"]}

GitOps == {"import_refs", "export_refs", "fetch", "push_branches"}

\* The threads whose call on handle h is inside the engine: running its
\* closure under the lock, or running Transaction::commit.
InEngine(h) == {t \in Threads : pc[t] \in {"in", "durable"} /\ cur[t].h = h}

\* C13: an operation that runs a closure holds the handle's Mutex from the
\* slot check until it returns, so at most one call per handle is inside the
\* engine at any time, and while a closure runs (import_refs, export_refs,
\* fetch and push_branches included) no commit or discard has taken the
\* slot: the transaction is still in it.
C13_ExclusiveLock ==
    /\ \A h \in Handles : Cardinality(InEngine(h)) <= 1
    /\ \A t \in Threads :
         pc[t] = "in" =>
            /\ lockHolder[cur[t].h] = t
            /\ slot[cur[t].h].present
            /\ takes[cur[t].h].commit + takes[cur[t].h].discard = 0

\* C13 witness: a commit waits at the lock while fetch runs on the same
\* handle.
C13_Witness ==
    \E t \in Threads, u \in Threads :
        /\ pc[t] = "in" /\ cur[t].op = "fetch"
        /\ pc[u] = "lock" /\ cur[u].op = "commit" /\ cur[u].h = cur[t].h

\* A call that waits for the Mutex waits for a closure that is running on
\* another thread; the Mutex is never held by a call that has returned nor
\* twice by one call (update_description locks once, inside rewrite_commit);
\* a call that has returned has yielded a value or a tagged error unless an
\* engine call panicked.
NoDeadlock ==
    /\ \A h \in Handles :
         lockHolder[h] # NoThread =>
            pc[lockHolder[h]] = "in" /\ cur[lockHolder[h]].h = h
    /\ \A t \in Threads :
         /\ pc[t] = "lock" => lockHolder[cur[t].h] # t
         /\ Done(t) =>
              /\ ret[t].kind # "NoRet"
              /\ ret[t].kind = "Panic" <=> cause[t] = "panic"
              /\ cause[t] = "panic" => ran[t]

\* C14 witness: update_description waited for another call's closure on the
\* same handle and then returned.
C14_Witness ==
    \E t \in Threads, u \in Threads :
        /\ t # u /\ Done(t) /\ cur[t].op = "update_description"
        /\ cause[t] = "done" /\ cur[u].h = cur[t].h /\ Done(u) /\ ran[u]

\* C14: under a fair scheduler, and with engine calls that come to an end,
\* every call of every operation returns in every interleaving (a value, a
\* tagged error, or the panic of the engine call it was in); no call waits
\* for a Mutex that is never released, update_description included.
C14_EveryCallReturns ==
    /\ []NoDeadlock
    /\ \A t \in Threads : (pc[t] # "idle") ~> (pc[t] = "idle")

\* ------------------------------------------------------------------ the log
\* The last call was `op` and it returned a log.
LogOk(op) == lg.op = op /\ lg.res.ret.kind = "Ok"

\* The commits the revisions of the last log call evaluate to.
LogSet ==
    EvaluateRevisions(Repo(store, repoHeads), lg.options.revisions, FALSE).ids

\* The ids of that set in the engine's grouped order, and in the revset's own
\* order, as text.
GroupedIds ==
    LET grouped == TopoGrouped(IterGraph(store, LogSet))
    IN  [i \in 1..Len(grouped) |-> T(grouped[i].id)]
RawIds == [i \in 1..Cardinality(LogSet) |-> T(SortDesc(LogSet)[i])]

Reversed(seq) == [i \in 1..Len(seq) |-> seq[Len(seq) + 1 - i]]

\* The ids of the entries the last evaluate_log call returned, in the order
\* they had before the reversal, if any.
ShownIds ==
    IF lg.options.reversed THEN Reversed(EntryIds(lg.res.ret.entries))
    ELSE EntryIds(lg.res.ret.entries)

\* C15: a log with limit k >= 0 has at most k entries and they are the first
\* k commits of the grouped sequence of the evaluated set (all of them when
\* the set has fewer); a negative limit returns every commit of the set;
\* limit 0 returns an empty log.
C15_LimitTruncatesGrouped ==
    LogOk("evaluate_log") =>
        LET k == lg.options.limit
            n == Len(GroupedIds)
        IN  /\ k >= 0 =>
                /\ Len(ShownIds) <= k
                /\ ShownIds = SubSeq(GroupedIds, 1, Min(k, n))
            /\ k < 0 =>
                /\ ShownIds = GroupedIds
                /\ SeqRange(ShownIds) = {T(id) : id \in LogSet}
            /\ k = 0 => lg.res.ret.entries = <<>>

\* C15 witness: a log cut to fewer commits than the set has, where the first
\* commits of the grouped sequence are not the first of the revset's order.
C15_Witness ==
    /\ LogOk("evaluate_log")
    /\ lg.options.limit \in 1..(Cardinality(LogSet) - 1)
    /\ ~lg.options.reversed
    /\ Len(lg.res.ret.entries) = lg.options.limit
    /\ EntryIds(lg.res.ret.entries) # SubSeq(RawIds, 1, lg.options.limit)

\* C16 (P4): a non-reversed log with limit k >= 0 asks the store for at most
\* k commits, however many commits the evaluated set has, and for exactly
\* one commit per entry it returns.
C16_BoundedFetches ==
    (lg.op = "evaluate_log" /\ ~lg.options.reversed /\ lg.options.limit >= 0) =>
        /\ lg.res.fetched <= lg.options.limit
        /\ lg.res.ret.kind = "Ok" => lg.res.fetched = Len(lg.res.ret.entries)

\* C16 witness: a log of k commits out of a set of more than k + 1, built
\* with k fetches.
C16_Witness ==
    /\ LogOk("evaluate_log")
    /\ ~lg.options.reversed
    /\ lg.options.limit >= 1
    /\ Cardinality(LogSet) > lg.options.limit + 1
    /\ lg.res.fetched = lg.options.limit

\* The commit ids of the result of a log call of either kind.
ResultIds(op, r) ==
    IF op = "evaluate_log" THEN EntryIds(r.entries)
    ELSE [i \in 1..Len(r.entries) |-> r.entries[i].id]

\* The result of the last log call's non-reversed counterpart: the same call
\* on the same repository with reversed = false.
Counterpart ==
    LET options == [lg.options EXCEPT !.reversed = FALSE]
    IN  IF lg.op = "evaluate_log"
        THEN EvaluateLog(Repo(store, repoHeads), options, NoFault).ret
        ELSE EvaluateLogFlat(Repo(store, repoHeads), options, NoFault).ret

\* C17 (P6): a reversed log with no limit has as many entries as the
\* non-reversed log of the same revisions on the same repository, and its
\* i-th entry is the commit of the (n-i)-th entry of that log.
C17_ReversedMirrors ==
    (lg.op # "none" /\ lg.options.reversed /\ lg.options.limit < 0
                    /\ lg.res.ret.kind = "Ok") =>
        LET r == ResultIds(lg.op, lg.res.ret)
            e == ResultIds(lg.op, Counterpart)
        IN  /\ Counterpart.kind = "Ok"
            /\ Len(r) = Len(e)
            /\ \A i \in 1..Len(r) : r[i] = e[Len(e) + 1 - i]

\* C17 witness: a reversed graph log with no limit whose commits are not in
\* the revset's own order backwards.
C17_Witness ==
    /\ LogOk("evaluate_log")
    /\ lg.options.reversed /\ lg.options.limit < 0
    /\ Len(lg.res.ret.entries) >= 3
    /\ EntryIds(lg.res.ret.entries) # Reversed(RawIds)

\* The stored commit an entry of a log presents.
Presented(entry) == CHOOSE c \in store : T(c.id) = entry.commit.id

\* The parent p is cut off from the evaluated set: neither it nor any of its
\* stored ancestors is in the set.
CutOff(p) == AncestorsOf(store, {p}) \cap LogSet = {}

\* The edges of the entry that are Missing edges to p.
MissingEdgesTo(entry, p) ==
    {k \in 1..Len(entry.edges) :
        entry.edges[k] = [target |-> T(p), edge_type |-> "Missing"]}

IsAncestorAt(entries, j, i) ==
    Presented(entries[j]).id \in
        AncestorsOf(store, SeqRange(Presented(entries[i]).parents))

\* The statement of C19 as the spec has it: in a log produced without
\* reversal no commit appears before any of its presented ancestors.
C19_Original ==
    (LogOk("evaluate_log") /\ ~lg.options.reversed) =>
        LET entries == lg.res.ret.entries
        IN  \A i \in 1..Len(entries), j \in 1..Len(entries) :
                IsAncestorAt(entries, j, i) => ~(i < j)

\* C19: a log produced without reversal presents every commit before all of
\* its presented ancestors (no commit appears after any of them); a reversed
\* log presents every commit after all of its presented ancestors.
C19_HeadsFirst ==
    LogOk("evaluate_log") =>
        LET entries == lg.res.ret.entries
        IN  \A i \in 1..Len(entries), j \in 1..Len(entries) :
                IsAncestorAt(entries, j, i) =>
                    IF lg.options.reversed THEN j < i ELSE i < j

\* C19 witness: a log without reversal of two branches and their common
\* ancestors, in an order that is not the revset's own.
C19_Witness ==
    /\ LogOk("evaluate_log") /\ ~lg.options.reversed
    /\ Len(lg.res.ret.entries) >= 4
    /\ EntryIds(lg.res.ret.entries) # RawIds
    /\ IsAncestorAt(lg.res.ret.entries, Len(lg.res.ret.entries), 1)

\* The revisions of the last log call parse and resolve, and the build met a
\* failure of the engine or the store: in the evaluation, in the walk of the
\* graph, or in loading one of the commits to present.
BuildFaulty ==
    /\ EvaluateRevisions(Repo(store, repoHeads), lg.options.revisions, FALSE).kind = "Ok"
    /\ LET n == Min(ToLimit(lg.options.limit), Cardinality(LogSet))
       IN  \/ lg.fault.evaluate
           \/ lg.fault.walk \in 1..n
           \/ lg.fault.load \in 1..n

\* The last log call failed on loading a presented commit from the store,
\* with nothing failing before that.
LoadFaultOnly ==
    /\ BuildFaulty /\ ~lg.fault.evaluate
    /\ lg.fault.load # 0
    /\ lg.fault.walk = 0

\* A log build that meets a failure returns an error and no entries: the
\* entries built before the failure are dropped, never returned as a
\* success.
LogBuildAllOrNothing ==
    (lg.op # "none" /\ BuildFaulty) =>
        /\ lg.res.ret.kind \in {"Revset", "Backend"}
        /\ DOMAIN lg.res.ret = {"kind", "message"}

\* C20: a store or I/O failure while the log is built (in the walk of the
\* graph or in loading a presented commit) makes evaluate_log return a
\* Revset-kind error and no entries.
C20_FailureIsRevsetError ==
    (lg.op = "evaluate_log" /\ BuildFaulty) =>
        /\ lg.res.ret.kind = "Revset"
        /\ DOMAIN lg.res.ret = {"kind", "message"}

\* ------------------------------------------------------- revset evaluation
\* The engine calls a query with these revisions is to make, from what the
\* revisions and the repository are: the revisions are parsed in order up to
\* the first that does not parse; if all parse, the expression is resolved;
\* if it resolves, it is evaluated; if that succeeds, the set is iterated.
ExpectedTrace(repo, revisions, fault) ==
    LET n == Len(revisions)
        bad == {i \in 1..n : ~ParseRevset(revisions[i]).ok}
        parses(k) == [i \in 1..k |-> [phase |-> "parse", arg |-> i]]
        resolves == \A i \in 1..n : ResolveRevset(repo, ParseRevset(revisions[i]).expr).ok
        step(phase) == <<[phase |-> phase, arg |-> 0]>>
    IN  IF bad # {} THEN parses(SortAsc(bad)[1])
        ELSE IF ~resolves THEN parses(n) \o step("resolve")
        ELSE IF fault.evaluate THEN parses(n) \o step("resolve") \o step("evaluate")
        ELSE parses(n) \o step("resolve") \o step("evaluate") \o step("iterate")

\* C21: the engine calls of a revset evaluation are made in the order parse,
\* resolve, evaluate, iterate; every revision of a list is parsed before the
\* resolution; the first revision that fails to parse ends the parsing, and a
\* phase that fails ends the call: no later phase is attempted and the call
\* returns that phase's error.
C21_PhasesInOrder ==
    lg.op # "none" =>
        LET want == ExpectedTrace(Repo(store, repoHeads), lg.options.revisions, lg.fault)
            last == want[Len(want)].phase
        IN  /\ Len(lg.trace) <= Len(want)
            /\ lg.trace = SubSeq(want, 1, Len(lg.trace))
            /\ lg.pc = "done" <=> lg.trace = want
            /\ lg.pc = "done" =>
                 IF last = "iterate"
                 THEN lg.res.ret.kind = "Ok" \/ lg.res.ret.message \in {"iterate", "walk", "commits"}
                 ELSE lg.res.ret = Err("Revset", last)

\* C21 witness: a log call whose second revision of three does not parse has
\* ended after two parses.
C21_Witness ==
    /\ lg.op = "evaluate_log" /\ lg.pc = "done"
    /\ Len(lg.options.revisions) = 3
    /\ lg.trace = <<[phase |-> "parse", arg |-> 1], [phase |-> "parse", arg |-> 2]>>
    /\ lg.res.ret = Err("Revset", "parse")

\* The call that went through its phases returns what the call taken as a
\* whole returns.
PhasesAgree ==
    (lg.op # "none" /\ lg.pc = "done") =>
        LET repo == Repo(store, repoHeads)
            r == EvaluateRevisions(repo, lg.options.revisions, lg.fault.evaluate)
        IN  IF lg.op = "evaluate_log" THEN lg.res = EvaluateLog(repo, lg.options, lg.fault)
            ELSE IF lg.op = "evaluate_log_flat"
            THEN lg.res = EvaluateLogFlat(repo, lg.options, lg.fault)
            ELSE IF r.kind # "Ok" THEN lg.res.ret = r
            ELSE lg.res.ret = RevsetIterate(lg.op, repo, r.ids, lg.fault)

\* The phase in which a query with these revisions fails ("none": in none
\* of parse, resolve, evaluate).
FailingPhase(repo, revisions, fault) ==
    LET want == ExpectedTrace(repo, revisions, fault)
    IN  IF want[Len(want)].phase = "iterate" THEN "none" ELSE want[Len(want)].phase

\* The statement of C22 as the spec has it: the kind of the error of a call
\* that failed in one phase is not the kind of the error of any call that
\* fails in another phase.
C22_Original ==
    (lg.op \in RevsetOps /\ lg.pc = "done" /\ lg.res.ret.kind # "Ok") =>
        \A text \in RevsetTexts, f \in PhaseFaults :
            LET repo == Repo(store, repoHeads)
                p == FailingPhase(repo, lg.options.revisions, lg.fault)
                q == FailingPhase(repo, <<text>>, f)
            IN  (p # "none" /\ q # "none" /\ q # p) =>
                    EvaluateRevisions(repo, <<text>>, f.evaluate).kind # lg.res.ret.kind

\* C22: a failure in the parse, resolve or evaluate phase (and in the
\* iteration) is reported with the one kind Revset, whatever the phase; only
\* the message, the engine's text, differs.
C22_OneRevsetKind ==
    (lg.op # "none" /\ lg.pc = "done"
        /\ FailingPhase(Repo(store, repoHeads), lg.options.revisions, lg.fault) # "none") =>
            /\ lg.res.ret.kind = "Revset"
            /\ DOMAIN lg.res.ret = {"kind", "message"}

\* C22 witness: a call that failed in the resolve phase, on a repository
\* where another text fails in the parse phase.
C22_Witness ==
    /\ lg.op = "evaluate_revset" /\ lg.pc = "done"
    /\ FailingPhase(Repo(store, repoHeads), lg.options.revisions, lg.fault) = "resolve"
    /\ lg.res.ret.kind = "Revset"
    /\ EvaluateRevisions(Repo(store, repoHeads), << <<"(">> >>, FALSE).kind = "Revset"

RECURSIVE JoinRevisions(_)
\* The single text "a|b|..." made of the revisions of a list.
JoinRevisions(revisions) ==
    IF Len(revisions) = 1 THEN revisions[1]
    ELSE revisions[1] \o <<"|">> \o JoinRevisions(Tail(revisions))

\* The list in the order given by a permutation of its positions.
Permuted(revisions, p) == [i \in 1..Len(revisions) |-> revisions[p[i]]]

\* The answer of a log call of either kind.
LogAnswer(op, repo, options, fault) ==
    IF op = "evaluate_log" THEN EvaluateLog(repo, options, fault).ret
    ELSE EvaluateLogFlat(repo, options, fault).ret

\* The set of commit ids, as text, of a log answer.
AnswerSet(op, r) == {ResultIds(op, r)[i] : i \in 1..Len(ResultIds(op, r))}

\* C23: a log call with an empty revisions list returns the commits of the
\* view (all visible commits); with the list [a, b, ...] of expressions it
\* returns the commit set of the single expression "a|b|..."; and with any
\* permutation of the list it has the same outcome and the same commit set.
C23_ListIsUnion ==
    (/\ lg.op \in LogOps /\ lg.pc = "done"
     /\ \A i \in 1..Len(lg.options.revisions) : ParseRevset(lg.options.revisions[i]).ok) =>
        LET repo == Repo(store, repoHeads)
            revs == lg.options.revisions
            got == lg.res.ret
        IN  /\ (got.kind = "Ok" /\ revs = <<>>) =>
                  AnswerSet(lg.op, got) = {T(id) : id \in RepoIndex(repo)}
            /\ (got.kind = "Ok" /\ revs # <<>>) =>
                  LET one == EvaluateRevset(repo, JoinRevisions(revs))
                  IN  /\ one.kind = "Ok"
                      /\ AnswerSet(lg.op, got) = {one.ids[i] : i \in 1..Len(one.ids)}
            /\ \A p \in Permutations(1..Len(revs)) :
                  LET other == LogAnswer(lg.op, repo,
                                         [lg.options EXCEPT !.revisions = Permuted(revs, p)],
                                         lg.fault)
                  IN  /\ other.kind = got.kind
                      /\ got.kind = "Ok" => AnswerSet(lg.op, other) = AnswerSet(lg.op, got)

\* C23 witness: a log of two revisions, each selecting one commit the other
\* does not select, that returned both commits.
C23_Witness ==
    /\ lg.op = "evaluate_log" /\ lg.pc = "done" /\ lg.res.ret.kind = "Ok"
    /\ lg.options.revisions = <<T(RootId), T(IdOf(12))>>
    /\ AnswerSet(lg.op, lg.res.ret) = {T(RootId), T(IdOf(12))}
    /\ IdOf(12) # RootId

\* No element occurs twice in the sequence.
NoDuplicates(seq) == \A i \in 1..Len(seq), j \in 1..Len(seq) : seq[i] = seq[j] => i = j

\* C24: no commit id occurs twice in the result of evaluate_revset,
\* evaluate_revset_to_commits, evaluate_log or evaluate_log_flat, also when
\* the expressions select overlapping commits, and count_revset returns the
\* number of distinct commits evaluate_revset returns for the same text.
C24_Deduplicated ==
    (lg.op # "none" /\ lg.pc = "done" /\ lg.res.ret.kind = "Ok") =>
        LET got == lg.res.ret
        IN  /\ lg.op = "evaluate_revset" =>
                 /\ NoDuplicates(got.ids)
                 /\ {got.ids[i] : i \in 1..Len(got.ids)} = {T(id) : id \in LogSet}
            /\ lg.op = "evaluate_revset_to_commits" =>
                 NoDuplicates([i \in 1..Len(got.commits) |-> got.commits[i].id])
            /\ lg.op \in LogOps => NoDuplicates(ResultIds(lg.op, got))
            /\ lg.op = "count_revset" =>
                 LET listed == EvaluateRevset(Repo(store, repoHeads),
                                              lg.options.revisions[1]).ids
                 IN  got.count = Cardinality({listed[i] : i \in 1..Len(listed)})

\* C24 witness: a log of two expressions that overlap (all() and one commit
\* of it) on a view of several commits, with one entry per commit.
C24_Witness ==
    /\ lg.op = "evaluate_log"
    /\ lg.pc = "done" /\ lg.res.ret.kind = "Ok"
    /\ Cardinality(LogSet) >= 2
    /\ lg.options.revisions = <<AllText, T(IdOf(12))>>
    /\ Len(lg.res.ret.entries) = Cardinality(LogSet)

\* ------------------------------------------------- identifier resolution
\* The indexed commits whose lowercase hex form starts with the text.
StartingWith(text) ==
    {id \in RepoIndex(Repo(store, repoHeads)) : IsPrefixOf(text, EncodeHex(id))}

EmptyPrefixIsResolved ==
    (lg.op = "resolve_commit_prefix" /\ lg.arg = <<>> /\ ~lg.indexFails) =>
        IF Cardinality(RepoIndex(Repo(store, repoHeads))) = 1
        THEN lg.ret = [kind |-> "Ok", ids |-> <<T(RootId)>>]
        ELSE lg.ret = Err("InvalidArgument", <<"Ambiguous commit prefix: ", <<>> >>)

\* The visible commits that carry the change id written as `text`.
LiveCommitsOf(text) ==
    {id \in RepoIndex(Repo(store, repoHeads)) :
        FfiChangeIdFrom(StoreGet(store, id).change) = text}

\* The statement of C27 as the spec has it, for a well-formed change id:
\* CommitNotFound when no live commit carries it, otherwise the ids of all
\* that do.
C27_Original ==
    (lg.op = "resolve_change_id" /\ ChangeIdTryFrom(lg.arg).ok) =>
        IF LiveCommitsOf(lg.arg) = {} THEN lg.ret.kind = "CommitNotFound"
        ELSE /\ lg.ret.kind = "Ok"
             /\ SeqRange(lg.ret.ids) = {T(id) : id \in LiveCommitsOf(lg.arg)}

\* C27: for a well-formed change id whose lookup does not fail,
\* resolve_change_id returns CommitNotFound carrying the id when no visible
\* commit has it and otherwise the ids of all visible commits that have it,
\* each once; a successful result is never empty.  A malformed id is
\* InvalidArgument and a failing lookup Internal.
C27_ChangeResolution ==
    lg.op = "resolve_change_id" =>
        LET live == LiveCommitsOf(lg.arg)
        IN  IF ~ChangeIdTryFrom(lg.arg).ok
            THEN lg.ret = Err("InvalidArgument", <<"Invalid change ID: ", lg.arg>>)
            ELSE IF lg.indexFails THEN lg.ret.kind = "Internal"
            ELSE IF live = {} THEN lg.ret = [kind |-> "CommitNotFound", id |-> lg.arg]
            ELSE /\ lg.ret.kind = "Ok"
                 /\ Len(lg.ret.ids) = Cardinality(live) /\ Len(lg.ret.ids) > 0
                 /\ SeqRange(lg.ret.ids) = {T(id) : id \in live}

\* C27 witness: a change id two visible commits carry has been resolved to
\* both of them.
C27_Witness ==
    /\ lg.op = "resolve_change_id" /\ ~lg.indexFails
    /\ Cardinality(LiveCommitsOf(lg.arg)) = 2
    /\ lg.ret.kind = "Ok" /\ Len(lg.ret.ids) = 2

\* A change id carried by a visible commit and by a commit no head reaches
\* resolves to the visible one only.
C27_HiddenLeftOut ==
    (/\ lg.op = "resolve_change_id" /\ lg.ret.kind = "Ok") =>
        \A i \in 1..Len(lg.ret.ids) :
            CommitIdTryFrom(lg.ret.ids[i]).bytes \in RepoIndex(Repo(store, repoHeads))

\* ------------------------------------------------------------------ fetch
\* The remote branches one pattern of a fetch selects.
SelectedBy(pattern) ==
    {b \in RemoteBranches :
        IF Contains(pattern, "*") /\ GlobCompiles(pattern)
        THEN GlobMatch(pattern, b) ELSE b = pattern}

\* C28: a fetch with an empty pattern list covers all branches of the
\* remote; otherwise it covers the union of what each pattern selects, a
\* pattern with '*' selecting by glob (by its literal text if the glob does
\* not compile) and a pattern without '*' selecting the branch of that name;
\* the same patterns in any other order cover the same branches.
C28_FetchPatterns ==
    (cur["t1"].op = "fetch" /\ ret["t1"].kind = "Ok") =>
        LET patterns == cur["t1"].args.branch_patterns
        IN  /\ ret["t1"].branches =
                 IF patterns = <<>> THEN RemoteBranches
                 ELSE UNION {SelectedBy(patterns[i]) : i \in 1..Len(patterns)}
            /\ \A p \in Permutations(1..Len(patterns)) :
                 {b \in RemoteBranches : Matches(BranchExpr(Permuted(patterns, p)), b)}
                     = ret["t1"].branches

\* C28 witness: a fetch of an exact name, a glob that does not compile and a
\* glob has covered the named branch and the branches the glob matches, and
\* not the others.
C28_Witness ==
    /\ cur["t1"].op = "fetch" /\ ret["t1"].kind = "Ok"
    /\ cur["t1"].args.branch_patterns = << <<"d">>, <<"[", "*">>, <<"*", "m">> >>
    /\ ret["t1"].branches = {<<"d">>, <<"m">>, <<"a", "m">>}
    /\ ret["t1"].branches # RemoteBranches

\* ------------------------------------------------------- the identity codec
\* The statement of C29 as the spec has it: a commit id encoded and decoded
\* is the same bytes, its text is lowercase hexadecimal, and no text is
\* accepted both as a commit id and as a change id.
C29_Original ==
    /\ lg.op = "encode_commit_id" =>
         /\ lg.back.ok /\ lg.back.bytes = lg.bytes
         /\ \A i \in 1..Len(lg.text) : IsLowerHexChar(lg.text[i])
    /\ lg.op = "decode" => ~(lg.commit.ok /\ lg.change.ok)

\* C29: a commit id encoded and decoded is the same bytes, and its text is
\* lowercase hexadecimal, two digits per byte; no text that holds a
\* character is accepted both as a commit id and as a change id; the empty
\* text is accepted as both, as the identifier of no bytes.
C29_Codec ==
    /\ lg.op = "encode_commit_id" =>
         /\ lg.back.ok /\ lg.back.bytes = lg.bytes
         /\ Len(lg.text) = 2 * Len(lg.bytes)
         /\ \A i \in 1..Len(lg.text) : IsLowerHexChar(lg.text[i])
    /\ lg.op = "decode" =>
         IF lg.text = <<>>
         THEN lg.commit = [ok |-> TRUE, bytes |-> <<>>] /\ lg.change = lg.commit
         ELSE ~(lg.commit.ok /\ lg.change.ok)

\* C29 witness: an id with digits above 9 in both halves of its byte has
\* gone out and come back.
C29_Witness ==
    /\ lg.op = "encode_commit_id"
    /\ lg.bytes = IdOf(171)
    /\ lg.back.bytes = IdOf(171)
    /\ SubSeq(lg.text, Len(lg.text) - 1, Len(lg.text)) = <<"a", "b">>

\* A change id encoded and decoded is the same bytes, and its text is made
\* of the letters k to z only.
ChangeIdRoundTrip ==
    lg.op = "encode_change_id" =>
        /\ lg.back.ok /\ lg.back.bytes = lg.bytes
        /\ \A i \in 1..Len(lg.text) : IsReverseHexChar(lg.text[i])

\* ------------------------------------------- calls made during a commit
\* Thread t is in the durability step of a commit and u has a call on the
\* same handle.
DuringCommitOf(t, u) ==
    /\ pc[t] = "durable" /\ u # t
    /\ cur[u].op # "none" /\ cur[u].h = cur[t].h

\* While a commit is in its durability step the Mutex of the handle is free
\* and the slot is empty; a call of another thread on the handle is not
\* inside a closure or an engine commit, holds no transaction, and if it has
\* not returned yet it can take its step (it does not wait).
CommitRunsUnlocked ==
    \A t \in Threads, u \in Threads :
        DuringCommitOf(t, u) =>
            /\ lockHolder[cur[t].h] = NoThread
            /\ ~slot[cur[t].h].present
            /\ pc[u] \in {"idle", "lock"}
            /\ held[u] = NoTx
            /\ pc[u] = "lock" => CanStep(u)

\* The step a call takes while a commit on its handle is in its durability
\* step ends the call with "already finalized", its closure not run.
FinalizedDuringCommit ==
    \A t \in Threads, u \in Threads :
        (DuringCommitOf(t, u) /\ pc[u] = "lock" /\ pc'[u] # "lock") =>
            /\ pc'[u] = "idle"
            /\ ret'[u].kind = "Internal"
            /\ ret'[u].message = "Transaction has already been committed or discarded"
            /\ ~ran'[u]
            /\ pc'[t] = "durable"

\* C30: commit takes the slot and releases the lock before the durability
\* step; an operation invoked on the same handle while that step is in
\* progress does not wait for it, returns "already finalized" at its first
\* step, and never reaches the transaction being committed.
C30_CommitOutsideLock == [](CommitRunsUnlocked) /\ [][FinalizedDuringCommit]_vars

\* C30 witness: a commit is still in its durability step and a call invoked
\* on the same handle after the slot was taken has already returned "already
\* finalized".
C30_Witness ==
    \E t \in Threads, u \in Threads :
        /\ DuringCommitOf(t, u)
        /\ Done(u) /\ GotFinalized(u) /\ ~ran[u]
        /\ ~seen[u].present /\ ~seen[u].ok /\ ~seen[u].failed

\* ------------------------------------------ errors of arguments and lookups
\* The arguments the closures of transaction.rs reject before anything is
\* written: a malformed id, an empty parent list, an unknown commit
\* (transaction.rs:77-93, 131-142, 166-178, 186-201, 232-243).
ArgumentFault(op, a, st) ==
    \/ /\ op = "create_empty_commit"
       /\ ~AllDecoded(a.parent_ids) \/ Len(a.parent_ids) = 0
    \/ /\ op \in {"create_commit_from_parent", "rewrite_commit",
                  "update_description", "abandon_commit"}
       /\ \/ ~CommitIdTryFrom(a.target).ok
          \/ CommitIdTryFrom(a.target).bytes \notin StoreIds(st)
    \/ /\ op = "rewrite_commit"
       /\ a.new_parent_ids.some
       /\ ~AllDecoded(a.new_parent_ids.ids) \/ Len(a.new_parent_ids.ids) = 0

\* The results the closures give for such arguments: InvalidArgument, or the
\* Backend error of store.get_commit.
ArgumentOrLookupError(r) ==
    \/ r.kind = "InvalidArgument"
    \/ r.kind = "Backend" /\ r.message = "get_commit"

\* The closure of thread t returns in this step.
ClosureReturns(t) == pc[t] = "in" /\ pc'[t] = "idle"

\* A closure that returns an argument or lookup error leaves the slot, the
\* store and the operation log as they were; the handle is still Active.
ErrorLeavesActive(t) ==
    LET h == cur[t].h IN
    /\ ArgumentFault(cur[t].op, cur[t].args, store) =>
           ArgumentOrLookupError(ret'[t])
    /\ ArgumentOrLookupError(ret'[t]) =>
           /\ slot[h].present
           /\ slot' = slot /\ store' = store /\ oplog' = oplog
           /\ poisoned' = poisoned
           /\ EngineHasChanges(slot'[h]) = EngineHasChanges(slot[h])
           /\ lockHolder'[h] = NoThread
           /\ ~poisoned'[h] /\ slot'[h].present

\* C31: an operation on an Active transaction that is given a malformed id,
\* an empty parent list or an unknown commit returns an argument or lookup
\* error and leaves the transaction Active with its accumulated changes as
\* they were: has_changes answers as before, and the slot check of a later
\* operation, commit included, lets it through.
C31_ErrorLeavesActive ==
    [][\A t \in Threads : ClosureReturns(t) => ErrorLeavesActive(t)]_vars

\* C31 witness: the caller's second call returned an argument or lookup
\* error on a transaction that already holds a change; the change is still
\* there and the handle is Active.
C31_Witness ==
    /\ pc["t1"] = "idle" /\ cause["t1"] = "done" /\ ncalls = 2
    /\ cur["t1"].h = "tx"
    /\ ArgumentFault(cur["t1"].op, cur["t1"].args, store)
    /\ ArgumentOrLookupError(ret["t1"])
    /\ mutated["tx"] /\ EngineHasChanges(slot["tx"])
    /\ SlotCheck("tx") = "go"

\* ------------------------------------------------- the reversed graph log
EdgeTypes == {"Direct", "Indirect", "Missing"}

\* The entry of commit x in `entries` carries an edge to y of type t.
CarriesEdge(entries, x, y, t) ==
    \E i \in 1..Len(entries) :
        /\ entries[i].commit.id = x
        /\ \E e \in 1..Len(entries[i].edges) :
              /\ entries[i].edges[e].target = y
              /\ entries[i].edges[e].edge_type = t

\* The ids the edges of `entries` point at.
EdgeTargets(entries) ==
    UNION {{entries[i].edges[e].target : e \in 1..Len(entries[i].edges)} :
              i \in 1..Len(entries)}

\* The last call was a reversed evaluate_log that returned a log.
ReversedLogOk == LogOk("evaluate_log") /\ lg.options.reversed

\* C32: in a reversed graph log the limit is applied before the inversion:
\* the entries are the first k of the grouped newest-first sequence, shown
\* oldest first; entry X carries the edge (Y, t) exactly when the
\* non-reversed log with the same limit has an entry Y with the edge (X, t);
\* no edge points at a commit that is not among the entries shown.
C32_LimitThenInvert ==
    ReversedLogOk =>
        LET r == lg.res.ret.entries
            c == Counterpart.entries
            ids == SeqRange(EntryIds(r))
            k == ToLimit(lg.options.limit)
        IN  /\ Counterpart.kind = "Ok"
            /\ EntryIds(r) =
                   Reversed(SubSeq(GroupedIds, 1, Min(k, Len(GroupedIds))))
            /\ EntryIds(r) = Reversed(EntryIds(c))
            /\ \A x \in ids, y \in ids \cup EdgeTargets(c), t \in EdgeTypes :
                   CarriesEdge(r, x, y, t) <=> CarriesEdge(c, y, x, t)
            /\ EdgeTargets(r) \subseteq ids

\* C32 witness: a reversed log cut by its limit that shows the newest
\* commits and not the oldest, with an edge turned around and an edge of the
\* non-reversed log, to a parent the limit cut off, that no entry carries.
C32_Witness ==
    /\ ReversedLogOk
    /\ lg.options.limit \in 1..(Cardinality(LogSet) - 1)
    /\ Len(lg.res.ret.entries) = lg.options.limit
    /\ EntryIds(lg.res.ret.entries) #
           SubSeq(Reversed(GroupedIds), 1, lg.options.limit)
    /\ \E x \in SeqRange(EntryIds(lg.res.ret.entries)),
          y \in SeqRange(EntryIds(lg.res.ret.entries)) :
           /\ CarriesEdge(lg.res.ret.entries, x, y, "Direct")
           /\ CarriesEdge(Counterpart.entries, y, x, "Direct")
    /\ \E z \in EdgeTargets(Counterpart.entries) :
           /\ z \notin SeqRange(EntryIds(lg.res.ret.entries))
           /\ z \notin EdgeTargets(lg.res.ret.entries)

\* ------------------------------------------- the workspace and its handles
\* lg holds what the caller has done with the workspace: the handles whose
\* transaction has been started, and what the last FfiWorkspace::repo call
\* returned (repo), with the number of operations published by then (at).
NoWorkspace ==
    [op |-> "workspace", started |-> {}, asked |-> FALSE, repo |-> {}, at |-> 0]

\* The snapshot the workspace was loaded at (FfiWorkspace::load,
\* init_internal_git_workspace, init_colocated_git_workspace): the root
\* commit and one commit on it.
LoadedHeads == {BaseId}

\* A workspace just loaded: no transaction has been started.
InitWorkspace ==
    /\ store = {RootCommit, BaseCommit}
    /\ oplog = <<>>
    /\ repoHeads = LoadedHeads
    /\ slot = [h \in Handles |-> NoTx]
    /\ lockHolder = [h \in Handles |-> NoThread]
    /\ poisoned = [h \in Handles |-> FALSE]
    /\ pc = [t \in Threads |-> "idle"]
    /\ cur = [t \in Threads |-> NoCall]
    /\ ret = [t \in Threads |-> NoRet]
    /\ held = [t \in Threads |-> NoTx]
    /\ takes = [h \in Handles |-> [commit |-> 0, discard |-> 0]]
    /\ durable = [h \in Handles |-> 0]
    /\ finalOk = [h \in Handles |-> FALSE]
    /\ commitFailed = [h \in Handles |-> FALSE]
    /\ mutated = [h \in Handles |-> FALSE]
    /\ seen = [t \in Threads |-> Seen("tx")]
    /\ ran = [t \in Threads |-> FALSE]
    /\ wrote = [t \in Threads |-> FALSE]
    /\ cause = [t \in Threads |-> "none"]
    /\ ncalls = 0
    /\ taken = [h \in Handles |-> NoTx]
    /\ lg = NoWorkspace

\* A workspace that follows the operation log: repo() gives the view of the
\* operation published last.
WorkspaceRepoAtHead(loaded, ops) ==
    IF ops = <<>> THEN loaded ELSE ops[Len(ops)].heads

\* FfiWorkspace::repo (workspace.rs:93-95): a new handle on self.repo, the
\* snapshot stored in the workspace when it was loaded or initialized
\* (workspace.rs:73-78, 109-112, 126-129); no method assigns the field.
WorkspaceRepo(loaded, ops) == loaded

\* Every slot made anew by one start.
StartedSlotsAll(slots, h, base) == [k \in Handles |-> NewTx(base)]

\* FfiReadonlyRepo::start_transaction / start_git_transaction
\* (repo.rs:119-133) with FfiTransaction::new / FfiGitTransaction::new
\* (transaction.rs:29-34, git.rs): a new Mutex around a new transaction on
\* the handle's snapshot; the slots of the other handles are not touched.
StartedSlots(slots, h, base) == [slots EXCEPT ![h] = NewTx(base)]

\* The caller asks the workspace for a repository handle.
AskRepo ==
    /\ lg.op = "workspace"
    /\ lg' = [lg EXCEPT !.asked = TRUE, !.repo = WorkspaceRepo(repoHeads, oplog),
                        !.at = Len(oplog)]
    /\ UNCHANGED <<store, oplog, repoHeads, slot, lockHolder, poisoned, pc, cur,
                   ret, held, ghost, seen, ran, wrote, cause, ncalls>>

\* The caller starts the transaction of handle h from a repository handle
\* obtained from the workspace.
StartTransaction(h) ==
    /\ lg.op = "workspace"
    /\ h \notin lg.started
    /\ slot' = StartedSlots(slot, h, WorkspaceRepo(repoHeads, oplog))
    /\ lg' = [lg EXCEPT !.started = @ \cup {h}]
    /\ UNCHANGED <<store, oplog, repoHeads, lockHolder, poisoned, pc, cur,
                   ret, held, ghost, seen, ran, wrote, cause, ncalls>>

\* A caller invokes an operation on a handle whose transaction was started.
CallStarted(t, h, c) ==
    lg.op = "workspace" /\ h \in lg.started /\ CallOps(t, h, c)

NextWorkspace ==
    \/ AskRepo
    \/ \E h \in Handles : StartTransaction(h)
    \/ \E t \in Threads, h \in Handles : \E c \in CoreCallsOf(h) :
           CallStarted(t, h, c)
    \/ \E t \in Threads : Lock(t)
    \/ \E t \in Threads : Exec(t)
    \/ \E t \in Threads : Take(t)
    \/ \E t \in Threads : Durable(t)
    \/ \E t \in Threads : ExecPanic(t)

\* A workspace, the transactions started from its repository handle at any
\* moment, and concurrent callers on them.
SpecWorkspace == InitWorkspace /\ [][NextWorkspace]_vars

\* A step of thread t in a call on handle h: the invocation, or a step of
\* the call in progress.
StepsOn(t, h) ==
    /\ pc'[t] # pc[t]
    /\ IF pc[t] = "idle" THEN cur'[t].h = h ELSE cur[t].h = h

\* The transaction of handle h is started in this step.
Starts(h) == h \in lg'.started /\ h \notin lg.started

\* Nothing of handle k changes in this step: its slot, its Mutex, what
\* has_changes would answer and whether it is Active.
Untouched(k) ==
    /\ slot'[k] = slot[k]
    /\ lockHolder'[k] = lockHolder[k]
    /\ poisoned'[k] = poisoned[k]
    /\ slot[k].present =>
           EngineHasChanges(slot'[k]) = EngineHasChanges(slot[k])
    /\ SlotCheck(k)' = SlotCheck(k)

\* C33: transactions started from the same repository handle are
\* independent: each start gives the handle a slot of its own holding a new
\* transaction on the loaded snapshot, whatever the other transactions have
\* done, and a start or any step of any operation on one handle (commit and
\* discard included) leaves the slot, the has_changes answer and the Active
\* status of every other handle as they were.
C33_Independent ==
    [][lg.op = "workspace" =>
        \A h \in Handles :
            /\ Starts(h) =>
                   /\ slot'[h] = NewTx(LoadedHeads)
                   /\ ~EngineHasChanges(slot'[h])
                   /\ SlotCheck(h)' = "go"
            /\ (Starts(h) \/ \E t \in Threads : StepsOn(t, h)) =>
                   \A k \in Handles \ {h} : Untouched(k)]_vars

\* C33 witness: a commit on the git handle, invoked after the other
\* transaction had written a commit, has returned the loaded view, and the
\* other transaction is still Active with its change.
C33_Witness ==
    /\ lg.op = "workspace"
    /\ \E t \in Threads :
          /\ Done(t) /\ cur[t].h = "git" /\ cur[t].op = "commit"
          /\ ret[t].kind = "Ok" /\ ret[t].repo = LoadedHeads
          /\ seen[t].nstore = 3
    /\ SlotCheck("tx") = "go"
    /\ EngineHasChanges(slot["tx"])
    /\ slot["tx"].heads # LoadedHeads

\* C35: FfiWorkspace::repo returns the snapshot the workspace was loaded at,
\* however many transactions have been committed since: its view and index
\* are the loaded ones, and a view a commit has published that differs from
\* the loaded one is the view of the handle that commit returned and is not
\* what repo() returns.
C35_RepoIsLoadedSnapshot ==
    (lg.op = "workspace" /\ lg.asked) =>
        /\ lg.repo = LoadedHeads
        /\ RepoIndex(Repo(store, lg.repo)) = {RootId, BaseId}
        /\ \A i \in 1..Len(oplog) :
               oplog[i].heads # LoadedHeads => oplog[i].heads # lg.repo
        /\ \A t \in Threads :
               (Done(t) /\ cur[t].op = "commit" /\ ret[t].kind = "Ok") =>
                   \E i \in 1..Len(oplog) :
                       oplog[i].by = cur[t].h /\ oplog[i].heads = ret[t].repo

\* C35 witness: repo() was called after a commit had published a view with a
\* new head; it returned the loaded view, and the handle the commit returned
\* shows the new one.
C35_Witness ==
    /\ lg.op = "workspace" /\ lg.asked
    /\ lg.at >= 1
    /\ \E i \in 1..lg.at : oplog[i].heads # LoadedHeads
    /\ lg.repo = LoadedHeads
    /\ \E t \in Threads :
          /\ Done(t) /\ cur[t].op = "commit" /\ ret[t].kind = "Ok"
          /\ ret[t].repo # lg.repo

\* ------------------------------------------------ push of absent branches
\* Thread t is in the closure of a push_branches call that names a branch
\* without a local bookmark.
PushOfAbsent(t) ==
    /\ pc[t] = "in" /\ cur[t].op = "push_branches"
    /\ \E i \in 1..Len(cur[t].args.branch_names) :
          cur[t].args.branch_names[i] \notin LocalBookmarks

\* C34: a push_branches call that names a branch without a local bookmark
\* returns the Git error naming the first such branch, whatever the remote
\* would have answered: the collaborator's push is not reached, so the
\* result is neither its statistics nor its error, nothing is pushed (the
\* transaction and the store are as they were), and the handle is still
\* Active.
C34_ValidateBeforePush ==
    [][\A t \in Threads : (PushOfAbsent(t) /\ pc'[t] = "idle") =>
          LET h == cur[t].h IN
          /\ ret'[t].kind = "Git"
          /\ ret'[t].message =
                 <<"Branch not found: ", FirstAbsent(cur[t].args.branch_names)>>
          /\ slot' = slot /\ store' = store /\ oplog' = oplog
          /\ "pushed" \in slot'[h].refs <=> "pushed" \in slot[h].refs
          /\ SlotCheck(h)' = "go"]_vars

\* C34 witness: a request for a branch that exists followed by one that does
\* not has returned the error naming the second; nothing was pushed and the
\* handle is Active.
C34_Witness ==
    /\ Done("t1") /\ cur["t1"].op = "push_branches"
    /\ cur["t1"].args.branch_names = <<"main", "nope">>
    /\ ret["t1"].kind = "Git"
    /\ ret["t1"].message = <<"Branch not found: ", "nope">>
    /\ SlotCheck("git") = "go"
    /\ "pushed" \notin slot["git"].refs

\* ------------------------------------------------------ the poisoned handle
\* A handle whose Mutex is poisoned still holds its transaction: nothing has
\* taken it, nothing has been published for it, and no call is inside a
\* closure or an engine commit of it.
PoisonedHolds(h) ==
    poisoned[h] =>
        /\ slot[h].present
        /\ takes[h].commit = 0 /\ takes[h].discard = 0 /\ durable[h] = 0
        /\ ~finalOk[h] /\ PublishedBy(h) = {}
        /\ \A t \in Threads : cur[t].h = h => pc[t] \in {"idle", "lock"}

\* The step a call takes on a poisoned handle ends it with the lock failure,
\* its closure not run and nothing taken; the poison stays.
PoisonedFails ==
    /\ \A h \in Handles : poisoned[h] => poisoned'[h]
    /\ \A t \in Threads :
          (pc[t] = "lock" /\ poisoned[cur[t].h] /\ pc'[t] # "lock") =>
              /\ pc'[t] = "idle"
              /\ ret'[t].kind = "Internal"
              /\ ret'[t].message = "Failed to acquire transaction lock"
              /\ ~ran'[t]
              /\ slot' = slot /\ store' = store /\ oplog' = oplog

\* C36: after a closure has panicked under the lock the handle is neither
\* Active nor finalized: the transaction stays in the slot, every later
\* operation, commit and discard included, returns the Internal lock failure
\* and not "already finalized", no call takes the transaction, and nothing
\* is ever published for the handle.
C36_PoisonedForGood ==
    [](\A h \in Handles : PoisonedHolds(h)) /\ [][PoisonedFails]_vars

\* C36 witness: a transaction that holds a change was poisoned, and a commit
\* or discard made on it has returned the lock failure; the change is still
\* in the slot and nothing was published for the handle.
C36_Witness ==
    /\ poisoned["tx"] /\ mutated["tx"] /\ EngineHasChanges(slot["tx"])
    /\ PublishedBy("tx") = {}
    /\ \E t \in Threads :
          /\ Done(t) /\ cur[t].h = "tx" /\ cur[t].op \in Finalizers
          /\ GotLockFailure(t) /\ ~GotFinalized(t) /\ ~ran[t]

====
